---- MODULE Spec2Model ----
(***************************************************************************)
(* Model of the ledger engine of src/src/portfolio.rs: Portfolio, Stock    *)
(* and Trade with their buy / sell / split operations and the point-in-    *)
(* time queries Stock::quantity and Stock::average_purchase_price, the     *)
(* monthly summary (get_profit_by_month, Portfolio::profit_by_month), the  *)
(* tax rule of the CLI's profit summary (src/src/bin/cli/main.rs), the     *)
(* aggregate Portfolio of src/src/lib.rs, the JSON document written by     *)
(* Portfolio::save and read by Portfolio::load, and the runs of the        *)
(* command-line program (load with fallback, command, save).               *)
(*                                                                         *)
(* Representation choices.                                                 *)
(*  - OffsetDateTime values are small integers: calls are dated in Times,  *)
(*    queries in Dates, which has one more instant after all of Times.     *)
(*    Year and Month place the instants in consecutive calendar months.    *)
(*  - An f64 is an exact rational <<n, d>> with d > 0 in lowest terms.     *)
(*    Rounding of f64 arithmetic is not modelled. Every value that is not  *)
(*    a finite number computed from in-range operands (NaN, an infinity,   *)
(*    or anything computed from a wrapped u32) is the single token Unrep.  *)
(*  - A u32 is represented by the integer with the same 32-bit pattern     *)
(*    read as two's complement (so 2^32 - k is written -k); ULe is the     *)
(*    unsigned comparison on that representation.                          *)
(*  - Integer overflow of `+=` / `-=` / `+` panics when the crate is built *)
(*    with overflow checks (debug profile) and wraps otherwise (release    *)
(*    profile). A call in which an overflow occurs has both outcomes.      *)
(***************************************************************************)
EXTENDS Integers, Sequences, FiniteSets, TLC

\* ------------------------------------------------------------------ bounds
\* MaxEvents bounds the number of accepted calls (recorded trades and split
\* calls); rejected sells record nothing and are not counted.
MaxEvents == 3

Symbols == {"A"}
Quantities == {1, 2}
Prices == {1, 2}
Times == {1, 2, 3}
Dates == Times \cup {4}
LastDate == CHOOSE d \in Dates : \A e \in Dates : e <= d

\* ------------------------------------------------------------ f64 values
Abs(x) == IF x < 0 THEN -x ELSE x

RECURSIVE Gcd(_, _)
Gcd(a, b) == IF b = 0 THEN a ELSE Gcd(b, a % b)

Unrep == <<0, 0>>

Norm(n, d) ==
    IF d = 0 THEN Unrep
    ELSE LET s == IF d < 0 THEN -1 ELSE 1
             g == Gcd(Abs(n), Abs(d))
         IN  <<(s * n) \div g, (s * d) \div g>>

F(i) == <<i, 1>>
FAdd(a, b) == IF a = Unrep \/ b = Unrep THEN Unrep
              ELSE Norm(a[1] * b[2] + b[1] * a[2], a[2] * b[2])
FSub(a, b) == IF a = Unrep \/ b = Unrep THEN Unrep
              ELSE Norm(a[1] * b[2] - b[1] * a[2], a[2] * b[2])
FMul(a, b) == IF a = Unrep \/ b = Unrep THEN Unrep
              ELSE Norm(a[1] * b[1], a[2] * b[2])
FDiv(a, b) == IF a = Unrep \/ b = Unrep THEN Unrep
              ELSE Norm(a[1] * b[2], a[2] * b[1])

\* `x as u32` for an f64 x: truncation toward zero, NaN and negatives give 0.
\* (Saturation at 2^32 - 1 is out of reach of the bounded inputs.)
F64AsU32(a) == IF a = Unrep \/ a[1] < 0 THEN 0 ELSE a[1] \div a[2]

\* `x as i32` for an f64 x: truncation toward zero, saturating.
I32Max == 2147483647
F64AsI32(a) ==
    IF a = Unrep THEN 0
    ELSE LET t == IF a[1] < 0 THEN -((-a[1]) \div a[2]) ELSE a[1] \div a[2]
         IN  IF t > I32Max THEN I32Max
             ELSE IF t < -I32Max - 1 THEN -I32Max - 1 ELSE t

\* f64::from(u: u32): exact for values below 2^31, outside the modelled
\* range for a wrapped value (bit pattern read as negative).
F64FromU32(u) == IF u < 0 THEN Unrep ELSE F(u)

\* unsigned `a <= b` on 32-bit patterns
ULe(a, b) == IF (a < 0) = (b < 0) THEN a <= b ELSE b < 0

Ratios == {<<2, 1>>, <<1, 2>>}

\* ------------------------------------------------------------------ state
\* stocks, last, calls and split_log belong to the trade-log Portfolio of
\* portfolio.rs: its map of ledgers, the last call with its result, the
\* number of accepted calls, and the split calls made. assets is the map of
\* the aggregate Portfolio of lib.rs, file the contents of portfolio.json,
\* run what the last run of the command-line program did, and market the
\* progress of one call of StockMarket::get_stock_prices and its threads.
VARIABLES stocks, last, calls, split_log, assets, file, run, market

vars == <<stocks, last, calls, split_log, assets, file, run, market>>

Buy == "Buy"
Sell == "Sell"

\* ------------------------------------------------------------------ Trade
\* Trade::quantity / Trade::price: fold of the ratios of the splits dated
\* before `datetime`, in list order, starting from 1.0
\* variant: a split dated exactly at the query date is already applied
RECURSIVE SplitRatioInclusive(_, _)
SplitRatioInclusive(splits, datetime) ==
    IF splits = <<>> THEN F(1)
    ELSE LET n == Len(splits)
             acc == SplitRatioInclusive(SubSeq(splits, 1, n - 1), datetime)
         IN  IF splits[n].datetime <= datetime
             THEN FMul(acc, splits[n].ratio)
             ELSE acc

\* variant: every split of the list is applied, whatever the query date
RECURSIVE SplitRatioUnfiltered(_, _)
SplitRatioUnfiltered(splits, datetime) ==
    IF splits = <<>> THEN F(1)
    ELSE FMul(SplitRatioUnfiltered(SubSeq(splits, 1, Len(splits) - 1),
                                   datetime),
              splits[Len(splits)].ratio)

RECURSIVE SplitRatio(_, _)
SplitRatio(splits, datetime) ==
    IF splits = <<>> THEN F(1)
    ELSE LET n == Len(splits)
             acc == SplitRatio(SubSeq(splits, 1, n - 1), datetime)
         IN  IF splits[n].datetime < datetime
             THEN FMul(acc, splits[n].ratio)
             ELSE acc

\* A u32 converts to f64 exactly, so with no split applied (ratio 1.0) the
\* quantity comes back as it is, whatever its size. The scaled quantities
\* are computed for quantities below 2^31; quantities of 2^31 and more
\* (negative bit patterns) occur only in ledgers without splits.
TradeQuantity(trade, datetime) ==
    IF trade.quantity < 0 /\ SplitRatio(trade.splits, datetime) = F(1)
    THEN trade.quantity
    ELSE F64AsU32(FMul(F(trade.quantity), SplitRatio(trade.splits, datetime)))

\* variant: the price is scaled like the quantity
TradePriceScaledUp(trade, datetime) ==
    FMul(trade.price, SplitRatio(trade.splits, datetime))

TradePrice(trade, datetime) ==
    FDiv(trade.price, SplitRatio(trade.splits, datetime))

\* ------------------------------------------------------------------ Stock
NewStock(symbol) == [symbol |-> symbol, trades |-> <<>>]

\* variant: the loops stop at the first trade with trade.datetime > date,
\* so that a trade dated at `date` is visited too
RECURSIVE PrefixLenInclusive(_, _, _)
PrefixLenInclusive(trades, date, i) ==
    IF i > Len(trades) \/ trades[i].datetime > date THEN i - 1
    ELSE PrefixLenInclusive(trades, date, i + 1)

\* The loops of Stock::split, Stock::quantity and
\* Stock::average_purchase_price stop at the first trade with
\* trade.datetime >= date: they visit this prefix of the list.
RECURSIVE PrefixLen(_, _, _)
PrefixLen(trades, date, i) ==
    IF i > Len(trades) \/ trades[i].datetime >= date THEN i - 1
    ELSE PrefixLen(trades, date, i + 1)

\* variant: the split rewrites quantity and price of the earlier trades
\* instead of pushing an adjustment
StockSplitRewriting(stock, ratio, datetime) ==
    LET k == PrefixLen(stock.trades, datetime, 1)
    IN  [stock EXCEPT !.trades =
            [i \in 1 .. Len(stock.trades) |->
                IF i <= k
                THEN [stock.trades[i] EXCEPT
                        !.quantity = F64AsU32(FMul(F(@), ratio)),
                        !.price = FDiv(@, ratio)]
                ELSE stock.trades[i]]]

\* variant: the loop has no break and adjusts every trade of the ledger
StockSplitAll(stock, ratio, datetime) ==
    [stock EXCEPT !.trades =
        [i \in 1 .. Len(stock.trades) |->
            [stock.trades[i] EXCEPT !.splits =
                Append(@, [ratio |-> ratio, datetime |-> datetime])]]]

\* variant: the loop also adjusts the trades dated exactly at the split
StockSplitInclusive(stock, ratio, datetime) ==
    LET k == PrefixLen(stock.trades, datetime + 1, 1)
    IN  [stock EXCEPT !.trades =
            [i \in 1 .. Len(stock.trades) |->
                IF i <= k
                THEN [stock.trades[i] EXCEPT !.splits =
                        Append(@, [ratio |-> ratio, datetime |-> datetime])]
                ELSE stock.trades[i]]]

StockSplit(stock, ratio, datetime) ==
    LET k == PrefixLen(stock.trades, datetime, 1)
    IN  [stock EXCEPT !.trades =
            [i \in 1 .. Len(stock.trades) |->
                IF i <= k
                THEN [stock.trades[i] EXCEPT !.splits =
                        Append(@, [ratio |-> ratio, datetime |-> datetime])]
                ELSE stock.trades[i]]]

\* Stock::quantity. acc is the i32 accumulator; ovf records an overflow
\* of `quantity +=`. The result `quantity as u32` keeps the bit pattern.
\* An effective quantity of 2^31 or more (a negative bit pattern) times
\* the signal is outside i32, and `as i32` saturates it.
RECURSIVE QuantityRun(_, _, _)
QuantityRun(trades, n, date) ==
    IF n = 0 THEN [val |-> 0, ovf |-> FALSE]
    ELSE LET r == QuantityRun(trades, n - 1, date)
             signal == IF trades[n].kind = Buy THEN F(1) ELSE F(-1)
             tq == TradeQuantity(trades[n], date)
             term == IF tq < 0
                     THEN (IF trades[n].kind = Buy THEN I32Max
                           ELSE -I32Max - 1)
                     ELSE F64AsI32(FMul(F(tq), signal))
             over == r.val > 0 /\ term > I32Max - r.val
             under == r.val < 0 /\ term < (-I32Max - 1) - r.val
         IN  [val |-> IF over THEN (r.val - I32Max - 1) + (term - I32Max - 1)
                      ELSE IF under THEN (r.val + I32Max + 1) + (term + I32Max + 1)
                      ELSE r.val + term,
              ovf |-> r.ovf \/ over \/ under]

StockQuantity(stock, date) ==
    QuantityRun(stock.trades, PrefixLen(stock.trades, date, 1), date)

\* variant: every Sell resets the average, whether or not it closes the
\* position
RECURSIVE AverageRunSellResets(_, _, _)
AverageRunSellResets(trades, n, date) ==
    IF n = 0 THEN [quantity |-> 0, avg |-> F(0), ovf |-> FALSE]
    ELSE LET r == AverageRunSellResets(trades, n - 1, date)
             tq == TradeQuantity(trades[n], date)
         IN  IF trades[n].kind = Buy
             THEN [quantity |-> r.quantity + tq,
                   avg |-> FDiv(FAdd(FMul(r.avg, F64FromU32(r.quantity)),
                                     FMul(TradePrice(trades[n], date), F64FromU32(tq))),
                                F64FromU32(r.quantity + tq)),
                   ovf |-> r.ovf \/ (r.quantity < 0 /\ r.quantity + tq >= 0)]
             ELSE [quantity |-> r.quantity - tq,
                   avg |-> F(0),
                   ovf |-> r.ovf \/ (r.quantity >= 0 /\ tq > r.quantity)]

\* variant: a Buy moves the average to the plain mean of the old average
\* and the new price, ignoring the quantities
RECURSIVE AverageRunUnweighted(_, _, _)
AverageRunUnweighted(trades, n, date) ==
    IF n = 0 THEN [quantity |-> 0, avg |-> F(0), ovf |-> FALSE]
    ELSE LET r == AverageRunUnweighted(trades, n - 1, date)
             tq == TradeQuantity(trades[n], date)
         IN  IF trades[n].kind = Buy
             THEN [quantity |-> r.quantity + tq,
                   avg |-> IF r.quantity = 0 THEN TradePrice(trades[n], date)
                           ELSE FDiv(FAdd(r.avg, TradePrice(trades[n], date)),
                                     F(2)),
                   ovf |-> r.ovf \/ (r.quantity < 0 /\ r.quantity + tq >= 0)]
             ELSE [quantity |-> r.quantity - tq,
                   avg |-> IF r.quantity - tq = 0 THEN F(0) ELSE r.avg,
                   ovf |-> r.ovf \/ (r.quantity >= 0 /\ tq > r.quantity)]

\* Stock::average_purchase_price. quantity is the u32 running quantity,
\* ovf records an overflow of `quantity + ..`, `quantity += ..` or
\* `quantity -= ..`.
RECURSIVE AverageRun(_, _, _)
AverageRun(trades, n, date) ==
    IF n = 0 THEN [quantity |-> 0, avg |-> F(0), ovf |-> FALSE]
    ELSE LET r == AverageRun(trades, n - 1, date)
             tq == TradeQuantity(trades[n], date)
         IN  IF trades[n].kind = Buy
             THEN [quantity |-> r.quantity + tq,
                   avg |-> FDiv(FAdd(FMul(r.avg, F64FromU32(r.quantity)),
                                     FMul(TradePrice(trades[n], date), F64FromU32(tq))),
                                F64FromU32(r.quantity + tq)),
                   ovf |-> r.ovf \/ (r.quantity < 0 /\ r.quantity + tq >= 0)]
             ELSE [quantity |-> r.quantity - tq,
                   avg |-> IF r.quantity - tq = 0 THEN F(0) ELSE r.avg,
                   ovf |-> r.ovf \/ (r.quantity >= 0 /\ tq > r.quantity)]

AveragePurchasePrice(stock, date) ==
    AverageRun(stock.trades, PrefixLen(stock.trades, date, 1), date)

\* variant: the average cost is taken over the whole ledger instead of as
\* of the trade's own timestamp
CalculateProfitLatest(stock, trade) ==
    LET a == AveragePurchasePrice(stock, LastDate)
    IN  [val |-> FMul(FSub(trade.price, a.avg),
                      F64FromU32(trade.quantity)),
         ovf |-> a.ovf]

\* Stock::calculate_profit
CalculateProfit(stock, trade) ==
    LET a == AveragePurchasePrice(stock, trade.datetime)
    IN  [val |-> FMul(FSub(trade.price, a.avg),
                      F64FromU32(trade.quantity)),
         ovf |-> a.ovf]

\* Stock::add_trade: push, then the stable sort_by on datetime
RECURSIVE InsertStable(_, _)
InsertStable(sorted, trade) ==
    IF sorted = <<>> THEN <<trade>>
    ELSE LET n == Len(sorted)
         IN  IF sorted[n].datetime <= trade.datetime
             THEN Append(sorted, trade)
             ELSE Append(InsertStable(SubSeq(sorted, 1, n - 1), trade), sorted[n])

RECURSIVE SortByDatetime(_)
SortByDatetime(trades) ==
    IF trades = <<>> THEN <<>>
    ELSE LET n == Len(trades)
         IN  InsertStable(SortByDatetime(SubSeq(trades, 1, n - 1)), trades[n])

\* variant: push without the sort
AddTradeUnsorted(stock, trade) ==
    [stock EXCEPT !.trades = Append(@, trade)]

AddTrade(stock, trade) ==
    [stock EXCEPT !.trades = SortByDatetime(Append(@, trade))]

StockBuy(stock, quantity, price, datetime) ==
    AddTrade(stock, [quantity |-> quantity, price |-> price,
                     datetime |-> datetime, kind |-> Buy, splits |-> <<>>])

\* variant: the trade is pushed before the ensure! check
StockSellPushFirst(stock, quantity, price, datetime) ==
    LET held == StockQuantity(stock, datetime)
        trade == [quantity |-> quantity, price |-> price,
                  datetime |-> datetime, kind |-> Sell, splits |-> <<>>]
        profit == CalculateProfit(stock, trade)
        pushed == AddTrade(stock, trade)
        enough == ULe(quantity, held.val)
    IN  {IF enough
         THEN [outcome |-> "ok", value |-> profit.val, stock |-> pushed]
         ELSE [outcome |-> "err", value |-> Unrep, stock |-> pushed]}
        \cup
        (IF held.ovf \/ (enough /\ profit.ovf)
         THEN {[outcome |-> "panic", value |-> Unrep, stock |-> pushed]}
         ELSE {})

\* variant: the sell is recorded without the ensure! check
StockSellUnchecked(stock, quantity, price, datetime) ==
    LET trade == [quantity |-> quantity, price |-> price,
                  datetime |-> datetime, kind |-> Sell, splits |-> <<>>]
    IN  {[outcome |-> "ok", value |-> CalculateProfit(stock, trade).val,
          stock |-> AddTrade(stock, trade)]}

\* Stock::sell: the set of possible results of the call. Without overflow
\* checks the call returns Err when ensure! fails and otherwise Ok(profit)
\* with the trade added; with overflow checks it panics instead when
\* Stock::quantity overflows, or when ensure! passes and
\* average_purchase_price overflows.
StockSell(stock, quantity, price, datetime) ==
    LET held == StockQuantity(stock, datetime)
        trade == [quantity |-> quantity, price |-> price,
                  datetime |-> datetime, kind |-> Sell, splits |-> <<>>]
        profit == CalculateProfit(stock, trade)
        enough == ULe(quantity, held.val)
    IN  {IF enough
         THEN [outcome |-> "ok", value |-> profit.val,
               stock |-> AddTrade(stock, trade)]
         ELSE [outcome |-> "err", value |-> Unrep, stock |-> stock]}
        \cup
        (IF held.ovf \/ (enough /\ profit.ovf)
         THEN {[outcome |-> "panic", value |-> Unrep, stock |-> stock]}
         ELSE {})

\* ------------------------------------------------- portfolio.json (serde)
\* serde_json writes a finite f64 as the shortest decimal that parses back
\* to it, and NaN and the infinities as null.
JsonF64(x) ==
    IF x = Unrep THEN [null |-> TRUE, n |-> 0, d |-> 1]
    ELSE [null |-> FALSE, n |-> x[1], d |-> x[2]]

\* time::serde::rfc3339 writes the timestamp as an RFC 3339 string
Rfc3339(datetime) == [rfc3339 |-> datetime]

JsonSplit(split) ==
    [ratio |-> JsonF64(split.ratio), datetime |-> Rfc3339(split.datetime)]

JsonTrade(trade) ==
    [quantity |-> trade.quantity,
     price |-> JsonF64(trade.price),
     datetime |-> Rfc3339(trade.datetime),
     kind |-> trade.kind,
     splits |-> [j \in 1 .. Len(trade.splits) |-> JsonSplit(trade.splits[j])]]

\* serde_json::to_writer(file, self): the document
\* {"stocks": {symbol: {"symbol": .., "trades": [..]}}}; an object is a
\* function of its keys, so documents that differ in key order are equal.
Serialize(portfolio) ==
    [stocks |->
        [s \in DOMAIN portfolio |->
            [symbol |-> portfolio[s].symbol,
             trades |-> [i \in 1 .. Len(portfolio[s].trades) |->
                            JsonTrade(portfolio[s].trades[i])]]]]

FromJsonF64(j) == IF j.null THEN Unrep ELSE <<j.n, j.d>>

FromJsonTrade(j) ==
    [quantity |-> j.quantity,
     price |-> FromJsonF64(j.price),
     datetime |-> j.datetime.rfc3339,
     kind |-> j.kind,
     splits |-> [k \in 1 .. Len(j.splits) |->
                    [ratio |-> FromJsonF64(j.splits[k].ratio),
                     datetime |-> j.splits[k].datetime.rfc3339]]]

\* a null where the derived Deserialize expects an f64 is an error
Parses(document) ==
    \A s \in DOMAIN document.stocks :
        \A i \in 1 .. Len(document.stocks[s].trades) :
            LET j == document.stocks[s].trades[i]
            IN  /\ ~j.price.null
                /\ \A k \in 1 .. Len(j.splits) : ~j.splits[k].ratio.null

\* serde_json::from_reader(file): Ok(portfolio) or Err
Deserialize(document) ==
    IF Parses(document)
    THEN [ok |-> TRUE,
          portfolio |->
              [s \in DOMAIN document.stocks |->
                  [symbol |-> document.stocks[s].symbol,
                   trades |-> [i \in 1 .. Len(document.stocks[s].trades) |->
                                  FromJsonTrade(document.stocks[s].trades[i])]]]]
    ELSE [ok |-> FALSE, portfolio |-> [s \in {} |-> NewStock(s)]]

\* portfolio.json: missing, holding a document, or holding bytes that are
\* no JSON document (a write that failed after File::create truncated it)
NoDocument == Serialize([s \in {} |-> NewStock(s)])
Missing == [state |-> "missing", document |-> NoDocument]
Corrupt == [state |-> "corrupt", document |-> NoDocument]
Written(document) == [state |-> "written", document |-> document]

\* no run of the command-line program yet
NoRun == [loaded |-> "none", saved |-> "none", exit |-> "none",
          reported |-> FALSE]

\* no call of get_stock_prices under way
NoFetch == [stocks |-> <<>>, handles |-> <<>>, results |-> <<>>,
            returned |-> FALSE]

\* The calls on the library leave the lib.rs map, the file, the record of
\* the last run and the stock market as they are at the start.
Untouched ==
    /\ assets = [k \in {} |-> k]
    /\ file = Missing
    /\ run = NoRun
    /\ market = NoFetch

\* -------------------------------------------------------------- Portfolio
\* HashMap::entry(symbol).or_insert_with(|| Stock::new(symbol))
Entry(symbol) ==
    IF symbol \in DOMAIN stocks THEN stocks[symbol] ELSE NewStock(symbol)

\* variant: the slot is written into a fresh map, which drops the ledgers
\* of the other symbols
PutAlone(symbol, stock) == [s \in {symbol} |-> stock]

\* the map with the ledger of symbol replaced
Put(symbol, stock) ==
    [s \in DOMAIN stocks \cup {symbol} |->
        IF s = symbol THEN stock ELSE stocks[s]]

NoCall == [op |-> "none", symbol |-> "", quantity |-> 0, price |-> F(0),
           ratio |-> F(0), datetime |-> 0, outcome |-> "ok", value |-> Unrep]

Init ==
    /\ stocks = [s \in {} |-> NewStock(s)]
    /\ last = NoCall
    /\ calls = 0
    /\ split_log = {}
    /\ Untouched

PortfolioBuy(symbol, quantity, price, datetime) ==
    /\ calls < MaxEvents
    /\ stocks' = Put(symbol, StockBuy(Entry(symbol), quantity, price, datetime))
    /\ last' = [NoCall EXCEPT !.op = "buy", !.symbol = symbol,
                              !.quantity = quantity, !.price = price,
                              !.datetime = datetime]
    /\ calls' = calls + 1
    /\ UNCHANGED <<split_log, assets, file, run, market>>

\* variant: a sell that leaves nothing held removes the ledger, as the
\* aggregate Portfolio of lib.rs does
PortfolioSellRemoving(symbol, quantity, price, datetime) ==
    \E r \in IF symbol \in DOMAIN stocks
              THEN StockSell(stocks[symbol], quantity, price, datetime)
              ELSE {[outcome |-> "err", value |-> Unrep]} :
        /\ r.outcome = "ok" => calls < MaxEvents
        /\ stocks' = IF symbol \notin DOMAIN stocks THEN stocks
                     ELSE IF r.outcome = "ok"
                             /\ StockQuantity(r.stock, LastDate).val = 0
                     THEN [s \in DOMAIN stocks \ {symbol} |-> stocks[s]]
                     ELSE Put(symbol, r.stock)
        /\ last' = [NoCall EXCEPT !.op = "sell", !.symbol = symbol,
                                  !.quantity = quantity, !.price = price,
                                  !.datetime = datetime,
                                  !.outcome = r.outcome, !.value = r.value]
        /\ calls' = IF r.outcome = "ok" THEN calls + 1 ELSE calls
        /\ UNCHANGED <<split_log, assets, file, run, market>>

\* Portfolio::sell: get_mut(symbol) fails for a symbol without a ledger,
\* otherwise the ledger is whatever Stock::sell leaves behind.
PortfolioSell(symbol, quantity, price, datetime) ==
    \E r \in IF symbol \in DOMAIN stocks
              THEN StockSell(stocks[symbol], quantity, price, datetime)
              ELSE {[outcome |-> "err", value |-> Unrep]} :
        /\ r.outcome = "ok" => calls < MaxEvents
        /\ stocks' = IF symbol \in DOMAIN stocks
                     THEN Put(symbol, r.stock) ELSE stocks
        /\ last' = [NoCall EXCEPT !.op = "sell", !.symbol = symbol,
                                  !.quantity = quantity, !.price = price,
                                  !.datetime = datetime,
                                  !.outcome = r.outcome, !.value = r.value]
        /\ calls' = IF r.outcome = "ok" THEN calls + 1 ELSE calls
        /\ UNCHANGED <<split_log, assets, file, run, market>>

\* variant: the split looks the ledger up with get_mut, as sell does, and
\* does nothing for a symbol without a ledger
PortfolioSplitKnownOnly(symbol, ratio, datetime) ==
    /\ calls < MaxEvents
    /\ stocks' = IF symbol \in DOMAIN stocks
                 THEN Put(symbol, StockSplit(stocks[symbol], ratio, datetime))
                 ELSE stocks
    /\ last' = [NoCall EXCEPT !.op = "split", !.symbol = symbol,
                              !.ratio = ratio, !.datetime = datetime]
    /\ split_log' = split_log \cup
                    {[symbol |-> symbol, ratio |-> ratio, datetime |-> datetime]}
    /\ calls' = calls + 1
    /\ UNCHANGED <<assets, file, run, market>>

\* Portfolio::split
PortfolioSplit(symbol, ratio, datetime) ==
    /\ calls < MaxEvents
    /\ stocks' = Put(symbol, StockSplit(Entry(symbol), ratio, datetime))
    /\ last' = [NoCall EXCEPT !.op = "split", !.symbol = symbol,
                              !.ratio = ratio, !.datetime = datetime]
    /\ split_log' = split_log \cup
                    {[symbol |-> symbol, ratio |-> ratio, datetime |-> datetime]}
    /\ calls' = calls + 1
    /\ UNCHANGED <<assets, file, run, market>>

Next ==
    \/ \E s \in Symbols, q \in Quantities, p \in Prices, t \in Times :
          PortfolioBuy(s, q, F(p), t)
    \/ \E s \in Symbols, q \in Quantities, p \in Prices, t \in Times :
          PortfolioSell(s, q, F(p), t)
    \/ \E s \in Symbols, r \in Ratios, t \in Times :
          PortfolioSplit(s, r, t)

Spec == Init /\ [][Next]_vars

\* ------------------------------------------------------ monthly summary
\* The calendar of the modelled instants: OffsetDateTime::year() and
\* OffsetDateTime::month(). Instants 1, 2, 3, 4 are in November 2023,
\* December 2023, January 2024 and February 2024.
Year(datetime) == IF datetime <= 2 THEN 2023 ELSE 2024
Month(datetime) == IF datetime = 1 THEN 11
                   ELSE IF datetime = 2 THEN 12
                   ELSE IF datetime = 3 THEN 1 ELSE 2

\* the years a summary is asked for: one of them has no trade
Years == {2023, 2024, 2025}
Months == 0 .. 11

\* MonthSummary::default()
NoSummary == [profit |-> F(0), sold_amount |-> F(0)]

\* variant: the year of the trade is not compared with the requested year
RECURSIVE ProfitRunAnyYear(_, _, _)
ProfitRunAnyYear(stock, n, year) ==
    IF n = 0 THEN [months |-> [m \in Months |-> NoSummary], ovf |-> FALSE]
    ELSE LET r == ProfitRunAnyYear(stock, n - 1, year)
             trade == stock.trades[n]
             month == Month(trade.datetime) - 1
             profit == CalculateProfit(stock, trade)
         IN  IF trade.kind # Sell THEN r
             ELSE [months |-> [r.months EXCEPT ![month] =
                       [sold_amount |->
                            FAdd(@.sold_amount,
                                 FMul(trade.price, F64FromU32(trade.quantity))),
                        profit |-> FAdd(@.profit, profit.val)]],
                   ovf |-> r.ovf \/ profit.ovf]

\* Stock::get_profit_by_month: the loop over the first n trades. months is
\* the array returned, ovf records an integer overflow inside
\* calculate_profit (a panic when built with overflow checks).
RECURSIVE ProfitRun(_, _, _)
ProfitRun(stock, n, year) ==
    IF n = 0 THEN [months |-> [m \in Months |-> NoSummary], ovf |-> FALSE]
    ELSE LET r == ProfitRun(stock, n - 1, year)
             trade == stock.trades[n]
             month == Month(trade.datetime) - 1
             profit == CalculateProfit(stock, trade)
         IN  IF trade.kind # Sell THEN r
             ELSE IF Year(trade.datetime) # year THEN r
             ELSE [months |-> [r.months EXCEPT ![month] =
                       [sold_amount |->
                            FAdd(@.sold_amount,
                                 FMul(trade.price, F64FromU32(trade.quantity))),
                        profit |-> FAdd(@.profit, profit.val)]],
                   ovf |-> r.ovf \/ profit.ovf]

GetProfitByMonth(stock, year) == ProfitRun(stock, Len(stock.trades), year)

\* variant: each ledger's summary overwrites the running one (`=` for `+=`)
RECURSIVE SumLedgersOverwrite(_, _, _)
SumLedgersOverwrite(portfolio, symbols, year) ==
    IF symbols = {}
    THEN [months |-> [m \in Months |-> NoSummary], ovf |-> FALSE]
    ELSE LET s == CHOOSE x \in symbols : TRUE
             r == SumLedgersOverwrite(portfolio, symbols \ {s}, year)
             stock_profit_by_month == GetProfitByMonth(portfolio[s], year)
         IN  [months |-> stock_profit_by_month.months,
              ovf |-> r.ovf \/ stock_profit_by_month.ovf]

\* Portfolio::profit_by_month: the loop over self.stocks.values(), in
\* whatever order the map yields the ledgers
RECURSIVE SumLedgers(_, _, _)
SumLedgers(portfolio, symbols, year) ==
    IF symbols = {}
    THEN [months |-> [m \in Months |-> NoSummary], ovf |-> FALSE]
    ELSE LET s == CHOOSE x \in symbols : TRUE
             r == SumLedgers(portfolio, symbols \ {s}, year)
             stock_profit_by_month == GetProfitByMonth(portfolio[s], year)
         IN  [months |-> [month \in Months |->
                 [profit |-> FAdd(r.months[month].profit,
                                  stock_profit_by_month.months[month].profit),
                  sold_amount |->
                      FAdd(r.months[month].sold_amount,
                           stock_profit_by_month.months[month].sold_amount)]],
              ovf |-> r.ovf \/ stock_profit_by_month.ovf]

PortfolioProfitByMonth(portfolio, year) ==
    SumLedgers(portfolio, DOMAIN portfolio, year)

\* ------------------------------------------- profit summary (cli/main.rs)
\* f64 `a > b`: false when either side is NaN
FGt(a, b) == a # Unrep /\ b # Unrep /\ a[1] * b[2] > b[1] * a[2]

TaxThreshold == 20000
TaxRate == <<3, 20>>

\* variant: the threshold is compared with >=
TaxFromThreshold(summary) ==
    IF ~FGt(F(TaxThreshold), summary.sold_amount)
       /\ summary.sold_amount # Unrep
       /\ FGt(summary.profit, F(0))
    THEN FMul(summary.profit, TaxRate)
    ELSE F(0)

\* Command::ProfitSummary: the tax of one month's summary
Tax(summary) ==
    IF FGt(summary.sold_amount, F(TaxThreshold)) /\ FGt(summary.profit, F(0))
    THEN FMul(summary.profit, TaxRate)
    ELSE F(0)

\* the twelve ProfitSummaryData rows made from the twelve summaries
SummaryRows(profit_by_month) ==
    [month \in Months |->
        [sold_amount |-> profit_by_month[month].sold_amount,
         profit |-> profit_by_month[month].profit,
         tax |-> Tax(profit_by_month[month])]]

ProfitSummary(portfolio, year) ==
    SummaryRows(PortfolioProfitByMonth(portfolio, year).months)

\* Calls with prices around half the threshold, so that the proceeds of a
\* month fall below, on and above it: buys in November 2023 and January
\* 2024, sells in January 2024.
TaxPrices == {9999, 10000, 10001}
BuyTimes == {1, 3}
SellTimes == {3}

NextTax ==
    \/ \E s \in Symbols, q \in Quantities, p \in TaxPrices, t \in BuyTimes :
          PortfolioBuy(s, q, F(p), t)
    \/ \E s \in Symbols, q \in Quantities, p \in TaxPrices, t \in SellTimes :
          PortfolioSell(s, q, F(p), t)

SpecTax == Init /\ [][NextTax]_vars

\* ------------------------------------------- aggregate position (lib.rs)
\* The entry of one symbol in the assets map of lib.rs' Portfolio: held is
\* FALSE for a symbol without an entry.
NoAsset == [held |-> FALSE, quantity |-> 0, average_price |-> F(0)]

\* lib.rs Portfolio::buy on that entry
AssetBuy(asset, quantity, price) ==
    IF asset.held
    THEN [held |-> TRUE,
          quantity |-> asset.quantity + quantity,
          average_price |->
              FDiv(FAdd(FMul(asset.average_price, F(asset.quantity)),
                        FMul(price, F(quantity))),
                   FAdd(F(asset.quantity), F(quantity)))]
    ELSE [held |-> TRUE, quantity |-> quantity, average_price |-> price]

\* The calls that are accepted: every buy and split, and the sells that
\* return Ok. A rejected or panicking sell leaves the portfolio as it was,
\* so the ledgers reached are those of Spec; the claims about the queries
\* on a ledger are checked here.
NextAccepted ==
    \/ \E s \in Symbols, q \in Quantities, p \in Prices, t \in Times :
          PortfolioBuy(s, q, F(p), t)
    \/ \E s \in Symbols, q \in Quantities, p \in Prices, t \in Times :
          PortfolioSell(s, q, F(p), t) /\ last'.outcome = "ok"
    \/ \E s \in Symbols, r \in Ratios, t \in Times :
          PortfolioSplit(s, r, t)

SpecAccepted == Init /\ [][NextAccepted]_vars

\* =================================================================== claims
\* Vocabulary of the properties below.
Held(symbol) == symbol \in DOMAIN stocks
Ledger(symbol) == stocks[symbol].trades
Called(op) == last.op = op
SellTrade(c) == [quantity |-> c.quantity, price |-> c.price,
                 datetime |-> c.datetime, kind |-> Sell, splits |-> <<>>]

\* value of a u32 bit pattern, when it equals the integer x (|x| < 2^31)
U32Is(u, x) == u >= 0 /\ u = x

\* The replayed holding as a plain integer: split-adjusted Buy quantities
\* minus split-adjusted Sell quantities of the trades dated before d.
RECURSIVE Holding(_, _)
Holding(trades, d) ==
    IF trades = <<>> THEN 0
    ELSE LET t == Head(trades)
         IN  (IF t.datetime < d
              THEN (IF t.kind = Buy THEN 1 ELSE -1) * TradeQuantity(t, d)
              ELSE 0) + Holding(Tail(trades), d)

\* number of positions at which `longer` is `shorter` with `trade` inserted
InsertedAt(shorter, longer, trade) ==
    {i \in 1 .. Len(longer) :
        /\ longer[i] = trade
        /\ shorter = SubSeq(longer, 1, i - 1) \o SubSeq(longer, i + 1, Len(longer))}

\* C1: a sell returns an error exactly when the symbol has no ledger or
\* quantity > Stock::quantity(timestamp); in every other case (equality
\* included) it succeeds and records one Sell trade.
C1_SellErrorExactly ==
    [][last'.op = "sell" =>
        LET c == last'
            short == \/ ~Held(c.symbol)
                     \/ ~ULe(c.quantity,
                             StockQuantity(stocks[c.symbol], c.datetime).val)
        IN  /\ (c.outcome = "err") <=> short
            /\ ~short =>
                  /\ c.outcome = "ok"
                  /\ Len(stocks'[c.symbol].trades) = Len(Ledger(c.symbol)) + 1
                  /\ InsertedAt(Ledger(c.symbol), stocks'[c.symbol].trades,
                                SellTrade(c)) # {}]_vars

\* C2: a sell that fails leaves the whole Portfolio unmodified; a sell
\* against a symbol without a ledger does not create one.
C2_FailedSellNoChange ==
    [][last'.op = "sell" /\ last'.outcome = "err" => stocks' = stocks]_vars

C2_Witness ==
    /\ Called("sell") /\ last.outcome = "err"
    /\ Held(last.symbol) /\ Len(Ledger(last.symbol)) >= 2

\* C3: for every symbol and every reference date d the replayed holding
\* (split-adjusted buys minus split-adjusted sells dated before d) is never
\* negative.
C3_HoldingNeverNegative ==
    \A s \in DOMAIN stocks : \A d \in Dates : Holding(stocks[s].trades, d) >= 0

\* C4: each ledger's trade list is in non-decreasing timestamp order.
C4_TradesSorted ==
    \A s \in DOMAIN stocks :
        \A i, j \in 1 .. Len(stocks[s].trades) :
            i < j => stocks[s].trades[i].datetime <= stocks[s].trades[j].datetime

\* a buy or sell was backfilled: it is dated before the latest trade
C4_Witness ==
    /\ last.op \in {"buy", "sell"} /\ last.outcome = "ok"
    /\ \E i \in 1 .. Len(Ledger(last.symbol)) :
          /\ last.datetime < Ledger(last.symbol)[i].datetime
          /\ \E j \in 1 .. Len(Ledger(last.symbol)) :
                Ledger(last.symbol)[j].datetime < last.datetime

\* C5: Stock::quantity(date) equals the sum, over the trades dated strictly
\* before date, of + effective quantity for a Buy and - effective quantity
\* for a Sell; trades dated at or after date contribute nothing.
C5_QuantityIsReplaySum ==
    \A s \in DOMAIN stocks : \A d \in Dates :
        U32Is(StockQuantity(stocks[s], d).val, Holding(stocks[s].trades, d))

\* C6: a successful sell returns (price - average cost as of its timestamp)
\* * quantity, the average cost being that of the ledger before the Sell is
\* inserted; the inserted Sell does not influence the value.
SellProfitOn(stock, c) ==
    FMul(FSub(c.price, AveragePurchasePrice(stock, c.datetime).avg),
         F(c.quantity))

C6_SellReturnsProfit ==
    [][last'.op = "sell" /\ last'.outcome = "ok" =>
          /\ last'.value = SellProfitOn(stocks[last'.symbol], last')
          /\ last'.value = SellProfitOn(stocks'[last'.symbol], last')]_vars

\* a sell recorded before a later-dated buy, with a non-zero cost basis
C6_Witness ==
    /\ Called("sell") /\ last.outcome = "ok"
    /\ last.value # Unrep
    /\ last.value # FMul(last.price, F(last.quantity))
    /\ \E i \in 1 .. Len(Ledger(last.symbol)) :
          /\ Ledger(last.symbol)[i].kind = Buy
          /\ Ledger(last.symbol)[i].datetime > last.datetime

\* C7: every trade dated before a split recorded for its symbol carries
\* that split's adjustment, whether it was recorded before or after the
\* split call.
Carries(trade, sp) ==
    \E k \in 1 .. Len(trade.splits) :
        trade.splits[k] = [ratio |-> sp.ratio, datetime |-> sp.datetime]

C7_EarlierTradesCarrySplit ==
    \A sp \in split_log :
        \A i \in 1 .. Len(Ledger(sp.symbol)) :
            Ledger(sp.symbol)[i].datetime < sp.datetime
                => Carries(Ledger(sp.symbol)[i], sp)

\* C8 (as claimed): a split with ratio 2 recorded at T doubles
\* quantity_as_of(d) and halves average_cost_as_of(d) for every d > T and
\* leaves both unchanged for every d <= T, compared with the ledger before.
Two == <<2, 1>>
Doubled(before, after) == before >= 0 /\ after = 2 * before

RECURSIVE RatioProduct(_, _)
RatioProduct(splits, d) ==
    IF splits = <<>> THEN F(1)
    ELSE FMul(IF Head(splits).datetime < d THEN Head(splits).ratio ELSE F(1),
              RatioProduct(Tail(splits), d))

Whole(x) == x # Unrep /\ x[2] = 1
ExactShares(trade, d) ==
    Whole(FMul(F(trade.quantity), RatioProduct(trade.splits, d)))

\* the ledger replays exactly as of d with every trade before d dated
\* before T: no whole-share truncation and no running quantity below zero
ReplaysExactlyBefore(stock, T, d) ==
    /\ \A i \in 1 .. Len(stock.trades) :
          stock.trades[i].datetime < d =>
              /\ stock.trades[i].datetime < T
              /\ ExactShares(stock.trades[i], d)
    /\ ~AveragePurchasePrice(stock, d).ovf

C9_SplitAdjustsExactlyEarlier ==
    [][last'.op = "split" =>
        LET before == Entry(last'.symbol).trades
            after == stocks'[last'.symbol].trades
            adj == [ratio |-> last'.ratio, datetime |-> last'.datetime]
        IN  /\ Len(after) = Len(before)
            /\ \A i \in 1 .. Len(before) :
                  after[i] = IF before[i].datetime < last'.datetime
                             THEN [before[i] EXCEPT !.splits = Append(@, adj)]
                             ELSE before[i]]_vars

\* a split dated after one trade of the ledger and exactly at another
C9_Witness ==
    /\ Called("split") /\ Held(last.symbol)
    /\ \E i, j \in 1 .. Len(Ledger(last.symbol)) :
          /\ Ledger(last.symbol)[i].datetime < last.datetime
          /\ Carries(Ledger(last.symbol)[i], last)
          /\ Ledger(last.symbol)[j].datetime = last.datetime
          /\ Ledger(last.symbol)[j].splits = <<>>

\* C10 (as claimed): a trade's effective quantity is quantity * product of
\* the ratios of its adjustments dated before d, its effective price is
\* price / that product, and effective quantity * effective price equals
\* quantity * price.
AllTrades ==
             UNION {{stocks[s].trades[i] : i \in 1 .. Len(stocks[s].trades)} :
                    s \in DOMAIN stocks}

FLe(a, b) == a[1] * b[2] <= b[1] * a[2]

RECURSIVE Reverse(_)
Reverse(seq) == IF seq = <<>> THEN <<>>
                ELSE Append(Reverse(Tail(seq)), Head(seq))

ClosedBy(stock, i, d) ==
    /\ i <= PrefixLen(stock.trades, d, 1)
    /\ stock.trades[i].kind = Sell
    /\ AverageRun(stock.trades, i, d).quantity = 0
    /\ \A j \in i + 1 .. PrefixLen(stock.trades, d, 1) :
          stock.trades[j].kind # Buy

C11_ClosedPositionResets ==
    \A s \in DOMAIN stocks : \A d \in Dates :
        \A i \in 1 .. Len(stocks[s].trades) :
            ClosedBy(stocks[s], i, d) =>
                /\ AveragePurchasePrice(stocks[s], d).avg = F(0)
                /\ ~AveragePurchasePrice(stocks[s], d).ovf
                /\ StockQuantity(stocks[s], d).val = 0

\* A second starting point for the claims about a reopened position: the
\* portfolio after buy(A, q, 1.0, 1); sell(A, q, 1.0, 2), that is a
\* position that was opened and fully closed. calls counts the accepted
\* calls made from there on.
InitClosed ==
    /\ \E q \in Quantities :
         \E r \in StockSell(StockBuy(NewStock("A"), q, F(1), 1), q, F(1), 2) :
            /\ r.outcome = "ok"
            /\ stocks = [s \in {"A"} |-> r.stock]
            /\ last = [NoCall EXCEPT !.op = "sell", !.symbol = "A",
                                     !.quantity = q, !.price = F(1),
                                     !.datetime = 2, !.value = r.value]
    /\ calls = 0
    /\ split_log = {}
    /\ Untouched

SpecClosed == InitClosed /\ [][Next]_vars

\* C12: after a position has been fully closed, the first later Buy at
\* price p makes the average cost equal to p (split-adjusted like the Buy
\* itself) for the dates after that Buy up to the next trade.
\* trade i is the last trade the replay as of d visits, a Buy, and the
\* replay has an earlier Sell that closed the position and quantity 0
\* right before trade i
ReopenedBy(stock, i, d) ==
    /\ i = PrefixLen(stock.trades, d, 1)
    /\ stock.trades[i].kind = Buy
    /\ AverageRun(stock.trades, i - 1, d).quantity = 0
    /\ \E k \in 1 .. i - 1 :
          /\ stock.trades[k].kind = Sell
          /\ AverageRun(stock.trades, k, d).quantity = 0
          /\ \A j \in k + 1 .. i - 1 : stock.trades[j].kind # Buy

C12_ReopenStartsFresh ==
    \A s \in DOMAIN stocks : \A d \in Dates :
        \A i \in 1 .. Len(stocks[s].trades) :
            ReopenedBy(stocks[s], i, d) =>
                AveragePurchasePrice(stocks[s], d).avg =
                    TradePrice(stocks[s].trades[i], d)

\* C13 (as claimed): a Sell at t that leaves a positive replayed quantity
\* leaves the average cost unchanged: the average cost as of a date d just
\* after t (no trade dated between t and d) equals the average cost as of t.
\* trade i is the last trade the replay as of d visits, a Sell, and the
\* running quantity after it is positive
LeftOpenBy(stock, i, d) ==
    /\ i = PrefixLen(stock.trades, d, 1)
    /\ stock.trades[i].kind = Sell
    /\ AverageRun(stock.trades, i, d).quantity > 0

C13_PartialSellKeepsAverage ==
    \A s \in DOMAIN stocks : \A d \in Dates :
        \A i \in 1 .. Len(stocks[s].trades) :
            LeftOpenBy(stocks[s], i, d) =>
                AveragePurchasePrice(stocks[s], d).avg =
                    AveragePurchasePrice(stocks[s],
                                         stocks[s].trades[i].datetime).avg

\* no trade before trade i is dated like trade i, and no adjustment of an
\* earlier trade is dated from trade i's date up to (not including) d
AloneBefore(stock, i, d) ==
    \A j \in 1 .. i - 1 :
        /\ stock.trades[j].datetime < stock.trades[i].datetime
        /\ \A k \in 1 .. Len(stock.trades[j].splits) :
              \/ stock.trades[j].splits[k].datetime < stock.trades[i].datetime
              \/ stock.trades[j].splits[k].datetime >= d

\* C13 (amended): the average cost as of d equals the average cost as of t
\* when the Sell is the only trade dated from t up to d and no split is
\* dated from t up to d.
C13_PartialSellAmended ==
    \A s \in DOMAIN stocks : \A d \in Dates :
        \A i \in 1 .. Len(stocks[s].trades) :
            LeftOpenBy(stocks[s], i, d) /\ AloneBefore(stocks[s], i, d) =>
                AveragePurchasePrice(stocks[s], d).avg =
                    AveragePurchasePrice(stocks[s],
                                         stocks[s].trades[i].datetime).avg

\* a partial sell after two buys at different prices
C13_Witness ==
    \E s \in DOMAIN stocks : \E d \in Dates :
        \E i \in 1 .. Len(stocks[s].trades) :
            /\ LeftOpenBy(stocks[s], i, d) /\ AloneBefore(stocks[s], i, d)
            /\ i = 3
            /\ LET a == AveragePurchasePrice(stocks[s], d)
               IN  ~a.ovf /\ a.avg # Unrep /\ a.avg[2] > 1

\* C14: for a ledger of two buys (q1, p1), (q2, p2) the quantity as of any
\* date after both is q1 + q2 and the average cost is
\* (p1*q1 + p2*q2) / (q1 + q2), which is also what the aggregate buy of
\* lib.rs computes; in general each replayed Buy takes the running average
\* to (avg*qty + price*buy_qty) / (qty + buy_qty), price and buy_qty being
\* split-adjusted for the query date.
TwoBuys(stock) ==
    /\ Len(stock.trades) = 2
    /\ \A i \in 1 .. 2 : stock.trades[i].kind = Buy
                         /\ stock.trades[i].splits = <<>>

C14_BuysAverageWeighted ==
    \A s \in DOMAIN stocks :
        /\ TwoBuys(stocks[s]) =>
              LET b1 == stocks[s].trades[1]
                  b2 == stocks[s].trades[2]
                  asset == AssetBuy(AssetBuy(NoAsset, b1.quantity, b1.price),
                                    b2.quantity, b2.price)
              IN  \A d \in Dates :
                      d > b2.datetime =>
                          /\ StockQuantity(stocks[s], d).val =
                                b1.quantity + b2.quantity
                          /\ AveragePurchasePrice(stocks[s], d).avg =
                                FDiv(FAdd(FMul(b1.price, F(b1.quantity)),
                                          FMul(b2.price, F(b2.quantity))),
                                     F(b1.quantity + b2.quantity))
                          /\ asset.quantity = StockQuantity(stocks[s], d).val
                          /\ asset.average_price =
                                AveragePurchasePrice(stocks[s], d).avg
        /\ \A d \in Dates :
              \A i \in 1 .. PrefixLen(stocks[s].trades, d, 1) :
                  stocks[s].trades[i].kind = Buy =>
                      LET before == AverageRun(stocks[s].trades, i - 1, d)
                          after == AverageRun(stocks[s].trades, i, d)
                          price == TradePrice(stocks[s].trades[i], d)
                          buy_qty == TradeQuantity(stocks[s].trades[i], d)
                      IN  /\ after.quantity = before.quantity + buy_qty
                          /\ before.quantity >= 0 =>
                                after.avg =
                                   FDiv(FAdd(FMul(before.avg, F(before.quantity)),
                                             FMul(price, F(buy_qty))),
                                        F(before.quantity + buy_qty))

\* two buys with different quantities and prices, the second one recorded
\* with the earlier timestamp
C14_Witness ==
    /\ Called("buy") /\ TwoBuys(stocks[last.symbol])
    /\ Ledger(last.symbol)[1].quantity # Ledger(last.symbol)[2].quantity
    /\ Ledger(last.symbol)[1].price # Ledger(last.symbol)[2].price
    /\ last.datetime < Ledger(last.symbol)[2].datetime

\* the Sell trades stored in a ledger
StoredSells(stock) ==
    {stock.trades[i] : i \in {j \in 1 .. Len(stock.trades) :
                                  stock.trades[j].kind = Sell}}

\* C15 (as claimed): the realized profit of a sell is re-derivable by
\* replay. Stated step by step: a successful sell returns what
\* Stock::calculate_profit gives for the stored trade on the ledger the
\* call leaves, and no further buy, sell or split call changes what
\* Stock::calculate_profit gives for a Sell trade already stored.
C15_ProfitRederivable ==
    [][/\ last'.op = "sell" /\ last'.outcome = "ok" =>
             last'.value =
                CalculateProfit(stocks'[last'.symbol], SellTrade(last')).val
       /\ \A s \in DOMAIN stocks : \A tr \in StoredSells(stocks[s]) :
             CalculateProfit(stocks'[s], tr).val =
                CalculateProfit(stocks[s], tr).val]_vars

\* C15 (amended): the same, for the further calls dated at or after the
\* timestamp of the Sell.
C15_ProfitRederivableAmended ==
    [][/\ last'.op = "sell" /\ last'.outcome = "ok" =>
             last'.value =
                CalculateProfit(stocks'[last'.symbol], SellTrade(last')).val
       /\ \A s \in DOMAIN stocks : \A tr \in StoredSells(stocks[s]) :
             last'.datetime >= tr.datetime =>
                CalculateProfit(stocks'[s], tr).val =
                   CalculateProfit(stocks[s], tr).val]_vars

\* a buy or split dated at or after a stored Sell with a non-zero profit
\* has changed the average cost as of later dates
C15_Witness ==
    /\ last.op \in {"buy", "split"} /\ Held(last.symbol)
    /\ \E tr \in StoredSells(stocks[last.symbol]) :
          /\ last.datetime >= tr.datetime
          /\ CalculateProfit(stocks[last.symbol], tr).val \notin {Unrep, F(0)}
          /\ AveragePurchasePrice(stocks[last.symbol], LastDate).avg #
                AveragePurchasePrice(stocks[last.symbol], tr.datetime).avg

\* the positions of the trades that belong to bucket m of a year: the
\* Sells whose timestamp has that year and month m + 1
Counted(stock, year, m) ==
    {i \in 1 .. Len(stock.trades) :
        /\ stock.trades[i].kind = Sell
        /\ Year(stock.trades[i].datetime) = year
        /\ Month(stock.trades[i].datetime) = m + 1}

RECURSIVE TotalProceeds(_, _)
TotalProceeds(stock, positions) ==
    IF positions = {} THEN F(0)
    ELSE LET i == CHOOSE x \in positions : TRUE
         IN  FAdd(FMul(stock.trades[i].price, F(stock.trades[i].quantity)),
                  TotalProceeds(stock, positions \ {i}))

RECURSIVE TotalProfit(_, _)
TotalProfit(stock, positions) ==
    IF positions = {} THEN F(0)
    ELSE LET i == CHOOSE x \in positions : TRUE
         IN  FAdd(CalculateProfit(stock, stock.trades[i]).val,
                  TotalProfit(stock, positions \ {i}))

\* C16: bucket m (0 = January) of profit_by_month(year) holds the profit
\* and the proceeds of exactly the Sell trades whose timestamp has that
\* year and month m + 1; Buy trades and trades of other years contribute
\* nothing, and a month without such Sells has profit 0 and proceeds 0.
C16_BucketsByYearAndMonth ==
    \A s \in DOMAIN stocks : \A year \in Years :
        LET ledger == GetProfitByMonth(stocks[s], year).months
        IN  /\ \A m \in Months :
                 LET counted == Counted(stocks[s], year, m)
                 IN  /\ ledger[m].sold_amount = TotalProceeds(stocks[s], counted)
                     /\ ledger[m].profit = TotalProfit(stocks[s], counted)
                     /\ counted = {} => ledger[m] = NoSummary
            /\ DOMAIN stocks = {s} =>
                  PortfolioProfitByMonth(stocks, year).months = ledger

\* a ledger with a Sell in December 2023 and a Sell in January 2024, both
\* with a profit
C16_Witness ==
    \E s \in DOMAIN stocks :
        /\ Counted(stocks[s], 2023, 11) # {}
        /\ Counted(stocks[s], 2024, 0) # {}
        /\ GetProfitByMonth(stocks[s], 2023).months[11].profit \notin {Unrep, F(0)}
        /\ GetProfitByMonth(stocks[s], 2024).months[0].profit \notin {Unrep, F(0)}
        /\ GetProfitByMonth(stocks[s], 2024).months[11] = NoSummary

\* C17: for every Sell trade the proceeds and the profit that
\* get_profit_by_month adds from the stored raw price and quantity are
\* effective price * effective quantity and (effective price - average
\* cost as of the trade's timestamp) * effective quantity, split-adjusted
\* as of the trade's own timestamp, also after splits recorded later.
C17_RawEqualsEffectiveAtOwnTime ==
    \A s \in DOMAIN stocks : \A trade \in StoredSells(stocks[s]) :
        LET t == trade.datetime
            effective_price == TradePrice(trade, t)
            effective_quantity == TradeQuantity(trade, t)
        IN  /\ FMul(trade.price, F(trade.quantity)) =
                  FMul(effective_price, F(effective_quantity))
            /\ CalculateProfit(stocks[s], trade).val =
                  FMul(FSub(effective_price,
                            AveragePurchasePrice(stocks[s], t).avg),
                       F(effective_quantity))

\* a Sell with a profit that carries the adjustment of a reverse split
\* recorded after it
C17_Witness ==
    /\ Called("split") /\ Held(last.symbol)
    /\ \E trade \in StoredSells(stocks[last.symbol]) :
          /\ Carries(trade, last)
          /\ last.ratio # Two
          /\ TradeQuantity(trade, LastDate) # trade.quantity
          /\ CalculateProfit(stocks[last.symbol], trade).val \notin {Unrep, F(0)}

\* ------------------------------------------------ two orders of buy calls
\* A driver for the claim about the order of buy calls: ledger "A" has
\* received two buy calls in one order and ledger "B" the same two calls
\* in the other order; from then on every call is made on both ledgers.
\* Stock's methods never read the symbol, so the two ledgers are the two
\* call sequences. calls counts the calls made on both.
MaxMirrored == 2

InitReordered ==
    /\ \E q1, q2 \in Quantities, p1, p2 \in Prices, t1, t2 \in Times :
         stocks = [s \in {"A", "B"} |->
                     IF s = "A"
                     THEN StockBuy(StockBuy(NewStock(s), q1, F(p1), t1),
                                   q2, F(p2), t2)
                     ELSE StockBuy(StockBuy(NewStock(s), q2, F(p2), t2),
                                   q1, F(p1), t1)]
    /\ last = NoCall
    /\ calls = 0
    /\ split_log = {}
    /\ Untouched

BuyOnBoth(quantity, price, datetime) ==
    /\ calls < MaxMirrored
    /\ stocks' = [s \in DOMAIN stocks |->
                    StockBuy(stocks[s], quantity, price, datetime)]
    /\ last' = [NoCall EXCEPT !.op = "buy", !.quantity = quantity,
                              !.price = price, !.datetime = datetime]
    /\ calls' = calls + 1
    /\ UNCHANGED <<split_log, assets, file, run, market>>

\* a sell that panics on either ledger ends that call sequence
SellOnBoth(quantity, price, datetime) ==
    /\ calls < MaxMirrored
    /\ \E a \in StockSell(stocks["A"], quantity, price, datetime),
          b \in StockSell(stocks["B"], quantity, price, datetime) :
          /\ a.outcome # "panic" /\ b.outcome # "panic"
          /\ stocks' = [s \in DOMAIN stocks |->
                          IF s = "A" THEN a.stock ELSE b.stock]
          /\ last' = [NoCall EXCEPT !.op = "sell", !.quantity = quantity,
                                    !.price = price, !.datetime = datetime,
                                    !.outcome = a.outcome, !.value = a.value]
    /\ calls' = calls + 1
    /\ UNCHANGED <<split_log, assets, file, run, market>>

SplitOnBoth(ratio, datetime) ==
    /\ calls < MaxMirrored
    /\ stocks' = [s \in DOMAIN stocks |->
                    StockSplit(stocks[s], ratio, datetime)]
    /\ last' = [NoCall EXCEPT !.op = "split", !.ratio = ratio,
                              !.datetime = datetime]
    /\ calls' = calls + 1
    /\ UNCHANGED <<split_log, assets, file, run, market>>

NextReordered ==
    \/ \E q \in Quantities, p \in Prices, t \in Times : BuyOnBoth(q, F(p), t)
    \/ \E q \in Quantities, p \in Prices, t \in Times : SellOnBoth(q, F(p), t)
    \/ \E r \in Ratios, t \in Times : SplitOnBoth(r, t)

SpecReordered == InitReordered /\ [][NextReordered]_vars

\* C18: profit_by_month does not depend on the order in which buy calls
\* were issued: two call sequences that differ only in the order of two
\* buy calls give the same twelve summaries for every year.
C18_BuyOrderIrrelevant ==
    \A year \in Years :
        GetProfitByMonth(stocks["A"], year).months =
            GetProfitByMonth(stocks["B"], year).months

\* C19: for each month of the profit summary the tax is profit * 0.15 when
\* proceeds > 20000 and profit > 0, both strictly, and 0 otherwise; proceeds
\* of exactly 20000 and a zero or negative profit give tax 0.
C19_TaxRule ==
    \A year \in Years :
        LET rows == ProfitSummary(stocks, year)
        IN  \A m \in Months :
               LET proceeds == rows[m].sold_amount
                   profit == rows[m].profit
                   tax == rows[m].tax
               IN  /\ FLe(proceeds, F(20000)) => tax = F(0)
                   /\ FLe(profit, F(0)) => tax = F(0)
                   /\ ~FLe(proceeds, F(20000)) /\ ~FLe(profit, F(0)) =>
                         /\ tax = FDiv(FMul(profit, F(15)), F(100))
                         /\ ~FLe(tax, F(0))

\* January 2024 with proceeds of exactly 20000 from two sells and a profit
C19_Witness ==
    LET row == ProfitSummary(stocks, 2024)[0]
    IN  /\ row.sold_amount = F(20000)
        /\ FGt(row.profit, F(0))
        /\ \E s \in DOMAIN stocks : Cardinality(Counted(stocks[s], 2024, 0)) = 2

\* ------------------------------------------------------------ two ledgers
\* The portfolio after buy(A, 2, 9999.0, 1); buy(B, 2, 9999.0, 1), and
\* from there further buys in November 2023 and sells in January 2024 of
\* both symbols at prices around half the tax threshold. calls counts the
\* accepted calls made from there on.
TwoSymbols == {"A", "B"}

InitTwo ==
    /\ stocks = [s \in TwoSymbols |->
                    StockBuy(NewStock(s), 2, F(9999), 1)]
    /\ last = [NoCall EXCEPT !.op = "buy", !.symbol = "B", !.quantity = 2,
                             !.price = F(9999), !.datetime = 1]
    /\ calls = 0
    /\ split_log = {}
    /\ Untouched

\* prices that put the proceeds of two sells on and just above the threshold
TwoPrices == {10000, 10001}

NextTwo ==
    \/ \E s \in TwoSymbols, q \in Quantities, p \in TwoPrices :
          PortfolioBuy(s, q, F(p), 1)
    \/ \E s \in TwoSymbols, q \in Quantities, p \in TwoPrices, t \in SellTimes :
          PortfolioSell(s, q, F(p), t)

SpecTwo == InitTwo /\ [][NextTwo]_vars

\* C20: Portfolio::profit_by_month(year) is, month by month, the sum of the
\* profit and of the proceeds that get_profit_by_month gives for each
\* ledger, and the tax of a month is decided on these totals.
AddSummaries(a, b) ==
    [m \in Months |->
        [profit |-> FAdd(a[m].profit, b[m].profit),
         sold_amount |-> FAdd(a[m].sold_amount, b[m].sold_amount)]]

\* the tax decided on one month's totals
TaxOnTotal(sum) ==
    IF ~FLe(sum.sold_amount, F(20000)) /\ ~FLe(sum.profit, F(0))
    THEN FDiv(FMul(sum.profit, F(15)), F(100))
    ELSE F(0)

TaxesOnTotals(sums) == [m \in Months |-> TaxOnTotal(sums[m])]
TaxesOf(rows) == [m \in Months |-> rows[m].tax]

C20_SumOverLedgers ==
    \A year \in Years :
        /\ PortfolioProfitByMonth(stocks, year).months =
              AddSummaries(GetProfitByMonth(stocks["A"], year).months,
                           GetProfitByMonth(stocks["B"], year).months)
        /\ TaxesOf(ProfitSummary(stocks, year)) =
              TaxesOnTotals(
                 AddSummaries(GetProfitByMonth(stocks["A"], year).months,
                              GetProfitByMonth(stocks["B"], year).months))

\* January 2024: each ledger's proceeds are below the threshold, their sum
\* is above it, and tax is due on the total profit
C20_Witness ==
    LET a == GetProfitByMonth(stocks["A"], 2024).months[0]
        b == GetProfitByMonth(stocks["B"], 2024).months[0]
    IN  /\ FGt(a.sold_amount, F(0)) /\ ~FGt(a.sold_amount, F(20000))
        /\ FGt(b.sold_amount, F(0)) /\ ~FGt(b.sold_amount, F(20000))
        /\ a.profit # b.profit
        /\ FGt(ProfitSummary(stocks, 2024)[0].tax, F(0))

\* what a trade records apart from its split list
TradeCore(trade) == [quantity |-> trade.quantity, price |-> trade.price,
                     datetime |-> trade.datetime, kind |-> trade.kind]
Cores(trades) == [i \in 1 .. Len(trades) |-> TradeCore(trades[i])]

\* `longer` is `shorter` or `shorter` with one element inserted
Retains(shorter, longer) ==
    \/ longer = shorter
    \/ \E i \in 1 .. Len(longer) :
          shorter = SubSeq(longer, 1, i - 1) \o
                    SubSeq(longer, i + 1, Len(longer))

\* C21: the first buy of a symbol creates its ledger, and a ledger is never
\* removed afterwards: after every call, also a sell that leaves nothing
\* held, every symbol that was a key is still a key and its ledger still
\* holds every trade it held.
C21_LedgersPersist ==
    [][/\ last'.op = "buy" =>
             /\ last'.symbol \in DOMAIN stocks'
             /\ last'.symbol \notin DOMAIN stocks =>
                   Cores(stocks'[last'.symbol].trades) =
                      <<[quantity |-> last'.quantity, price |-> last'.price,
                         datetime |-> last'.datetime, kind |-> Buy]>>
       /\ \A s \in DOMAIN stocks :
             /\ s \in DOMAIN stocks'
             /\ Retains(Cores(stocks[s].trades), Cores(stocks'[s].trades))]_vars

\* a sell has just closed the position: nothing is held as of any later
\* date, and the ledger is there with its Buy and its Sell
C21_Witness ==
    /\ Called("sell") /\ last.outcome = "ok"
    /\ Held(last.symbol)
    /\ Len(Ledger(last.symbol)) = 2
    /\ Ledger(last.symbol)[1].kind = Buy
    /\ StockQuantity(stocks[last.symbol], LastDate).val = 0

\* C22: events are append-only. A buy or sell call leaves every recorded
\* trade as it is, split list included, and removes none; a split call
\* keeps the number of trades and the quantity, price, timestamp and kind
\* of each, and changes a trade only by appending its one adjustment to
\* the trade's split list.
C22_AppendOnly ==
    [][\A s \in DOMAIN stocks :
          LET before == stocks[s].trades
              after == stocks'[s].trades
              adj == [ratio |-> last'.ratio, datetime |-> last'.datetime]
          IN  IF last'.op = "split"
              THEN /\ Len(after) = Len(before)
                   /\ \A i \in 1 .. Len(before) :
                         /\ TradeCore(after[i]) = TradeCore(before[i])
                         /\ after[i].splits \in
                               {before[i].splits, Append(before[i].splits, adj)}
              ELSE Retains(before, after)]_vars

\* a split has appended a second adjustment to a trade
C22_Witness ==
    /\ Called("split") /\ Held(last.symbol)
    /\ \E i \in 1 .. Len(Ledger(last.symbol)) :
          /\ Len(Ledger(last.symbol)[i].splits) = 2
          /\ Ledger(last.symbol)[i].splits[2] =
                [ratio |-> last.ratio, datetime |-> last.datetime]
          /\ Ledger(last.symbol)[i].splits[1] # Ledger(last.symbol)[i].splits[2]

\* The u32 denominator `quantity + trade.quantity(date)` of the division
\* made for the n-th trade of the replay of average_purchase_price(date).
Denominator(trades, n, date) ==
    AverageRun(trades, n - 1, date).quantity + TradeQuantity(trades[n], date)

\* C23: average_purchase_price never divides by zero. In every reachable
\* ledger, for every query date and every Buy replayed for it, the
\* denominator (running quantity plus the Buy's effective quantity) is
\* not zero.
C23_NoZeroDenominator ==
    \A s \in DOMAIN stocks : \A d \in Dates :
        \A n \in 1 .. PrefixLen(stocks[s].trades, d, 1) :
            stocks[s].trades[n].kind = Buy =>
                ~U32Is(Denominator(stocks[s].trades, n, d), 0)

\* The ratios a split call can be given: Portfolio::split takes any f64,
\* and parse_command parses the ratio argument without looking at its sign.
AnyRatios == Ratios \cup {<<0, 1>>, <<-1, 1>>}

NextAnyRatio ==
    \/ \E s \in Symbols, q \in Quantities, p \in Prices, t \in Times :
          PortfolioBuy(s, q, F(p), t)
    \/ \E s \in Symbols, q \in Quantities, p \in Prices, t \in Times :
          PortfolioSell(s, q, F(p), t) /\ last'.outcome = "ok"
    \/ \E s \in Symbols, r \in AnyRatios, t \in Times :
          PortfolioSplit(s, r, t)

SpecAnyRatio == Init /\ [][NextAnyRatio]_vars

\* C24: a split call with a ratio <= 0 is rejected with an error and
\* leaves every ledger as it was, and no trade ever carries an adjustment
\* whose ratio is <= 0.
C24_NonPositiveRatioRejected ==
    [][/\ (last'.op = "split" /\ last'.ratio[1] <= 0) =>
              /\ last'.outcome = "err"
              /\ stocks' = stocks
       /\ \A s \in DOMAIN stocks' :
              \A i \in 1 .. Len(stocks'[s].trades) :
                  \A j \in 1 .. Len(stocks'[s].trades[i].splits) :
                      stocks'[s].trades[i].splits[j].ratio[1] > 0]_vars

\* Symbols as the callers of Portfolio::buy, sell and split can write them:
\* the same ticker in lower and in upper case.
CaseSymbols == {"a", "A"}

\* str::to_uppercase on those symbols
ToUppercase(symbol) == IF symbol = "a" THEN "A" ELSE symbol

\* The calls of Portfolio::buy, sell and split with the symbol passed as
\* written; each uses `symbol.to_string()` (get_mut(symbol) for sell) as key.
NextCase ==
    \/ \E s \in CaseSymbols, q \in Quantities, t \in Times :
          PortfolioBuy(s, q, F(1), t)
    \/ \E s \in CaseSymbols, q \in Quantities, t \in Times :
          PortfolioSell(s, q, F(1), t) /\ last'.outcome = "ok"
    \/ \E s \in CaseSymbols, r \in Ratios, t \in Times :
          PortfolioSplit(s, r, t)

SpecCase == Init /\ [][NextCase]_vars

EqualIgnoringCase(a, b) == ToUppercase(a) = ToUppercase(b)

\* C25: ledgers are keyed by a case-insensitive canonical symbol. A call
\* changes only a ledger whose symbol equals the call's symbol ignoring
\* case, and the portfolio never holds two ledgers whose symbols are equal
\* ignoring case.
C25_CaseInsensitiveKeys ==
    [][/\ \A s \in DOMAIN stocks' :
              ~EqualIgnoringCase(s, last'.symbol) =>
                  s \in DOMAIN stocks /\ stocks'[s] = stocks[s]
       /\ \A s \in DOMAIN stocks' : \A t \in DOMAIN stocks' :
              EqualIgnoringCase(s, t) => s = t]_vars

\* C27: a split call on a symbol without a ledger creates an empty ledger
\* for it; on a symbol with a ledger it pushes its adjustment on that
\* ledger's trades dated before the split and changes nothing else of it.
\* Either way every other ledger stays as it was.
C27_SplitCreatesEmptyLedger ==
    [][last'.op = "split" =>
          LET s == last'.symbol
              adj == [ratio |-> last'.ratio, datetime |-> last'.datetime]
          IN  /\ DOMAIN stocks' = DOMAIN stocks \cup {s}
              /\ \A o \in DOMAIN stocks \ {s} : stocks'[o] = stocks[o]
              /\ s \notin DOMAIN stocks =>
                    stocks'[s] = [symbol |-> s, trades |-> <<>>]
              /\ s \in DOMAIN stocks =>
                    /\ stocks'[s].symbol = s
                    /\ Len(stocks'[s].trades) = Len(stocks[s].trades)
                    /\ \A i \in 1 .. Len(stocks[s].trades) :
                          stocks'[s].trades[i] =
                             IF stocks[s].trades[i].datetime < last'.datetime
                             THEN [stocks[s].trades[i] EXCEPT
                                     !.splits = Append(@, adj)]
                             ELSE stocks[s].trades[i]]_vars

\* a split has created the empty ledger of its symbol next to a ledger
\* that holds a trade
C27_Witness ==
    /\ Called("split") /\ Held(last.symbol)
    /\ Ledger(last.symbol) = <<>>
    /\ \E o \in DOMAIN stocks : o # last.symbol /\ Ledger(o) # <<>>

\* Timestamps with a calendar day in them, for the summary of a date: a
\* day has the instants 0 (00:00:00) .. LastInstant (23:59:59), and the
\* timestamp of instant i of day d is d * (LastInstant + 1) + i.
Days == {1, 2}
LastInstant == 2
DayTimes == {d * (LastInstant + 1) + i : d \in Days, i \in 0 .. LastInstant}
DateOf(datetime) == datetime \div (LastInstant + 1)

\* Command::Summary and summarize: date.with_time(23:59:59)
SummaryDatetime(date) == date * (LastInstant + 1) + LastInstant

\* What the summary of a date shows for a ledger: the arguments that
\* get_stock_prices hands to get_stock_price.
Summarize(stock, date) ==
    [quantity |-> StockQuantity(stock, SummaryDatetime(date)).val,
     average_price |-> AveragePurchasePrice(stock, SummaryDatetime(date)).avg]

\* buy, sell and split calls with timestamps that fall on those days
NextDays ==
    \/ \E s \in Symbols, q \in Quantities, p \in Prices, t \in DayTimes :
          PortfolioBuy(s, q, F(p), t)
    \/ \E s \in Symbols, q \in Quantities, p \in Prices, t \in DayTimes :
          PortfolioSell(s, q, F(p), t) /\ last'.outcome = "ok"
    \/ \E s \in Symbols, r \in Ratios, d \in Days :
          PortfolioSplit(s, r, SummaryDatetime(d))

SpecDays == Init /\ [][NextDays]_vars

\* C28: the summary of a date D is computed as of the end of day D: every
\* trade whose timestamp falls on day D, from 00:00:00 through 23:59:59,
\* is among the trades replayed for the quantity and the average cost
\* shown for D, so a ledger whose trades are Buys all dated on day D is
\* shown with the sum of their quantities.
C28_SummaryIncludesWholeDay ==
    \A s \in DOMAIN stocks : \A date \in Days :
        LET trades == stocks[s].trades
            shown == PrefixLen(trades, SummaryDatetime(date), 1)
        IN  /\ \A i \in 1 .. Len(trades) :
                  DateOf(trades[i].datetime) = date => i <= shown
            /\ (/\ Len(trades) = 1
                /\ trades[1].kind = Buy
                /\ trades[1].splits = <<>>
                /\ DateOf(trades[1].datetime) = date) =>
                   Summarize(stocks[s], date).quantity = trades[1].quantity

\* ----------------------------------- the aggregate Portfolio of lib.rs
\* assets maps the upper-cased symbol to the asset held (the asset class is
\* stored as given and plays no part). The entry of a symbol as AssetBuy
\* takes it:
AssetEntry(key) ==
    IF key \in DOMAIN assets
    THEN [held |-> TRUE, quantity |-> assets[key].quantity,
          average_price |-> assets[key].average_price]
    ELSE NoAsset

\* lib.rs Portfolio::buy
LibBuy(symbol, quantity, price) ==
    LET key == ToUppercase(symbol)
        bought == AssetBuy(AssetEntry(key), quantity, price)
    IN  /\ calls < MaxEvents
        /\ assets' = [k \in DOMAIN assets \cup {key} |->
                        IF k = key
                        THEN [name |-> key, quantity |-> bought.quantity,
                              average_price |-> bought.average_price]
                        ELSE assets[k]]
        /\ last' = [NoCall EXCEPT !.op = "buy", !.symbol = symbol,
                                  !.quantity = quantity, !.price = price]
        /\ calls' = calls + 1
        /\ UNCHANGED <<stocks, split_log, file, run, market>>

\* HashMap::remove(key)
Remove(map, key) == [k \in DOMAIN map \ {key} |-> map[k]]

\* lib.rs Portfolio::sell: the entry is looked up under the upper-cased
\* symbol, and a sell of the whole quantity removes the key `symbol` as
\* the caller wrote it.
LibSellOutcome(symbol, quantity) ==
    LET key == ToUppercase(symbol)
    IN  IF key \notin DOMAIN assets \/ assets[key].quantity < quantity
        THEN [outcome |-> "err", assets |-> assets]
        ELSE IF assets[key].quantity = quantity
        THEN [outcome |-> "ok", assets |-> Remove(assets, symbol)]
        ELSE [outcome |-> "ok",
              assets |-> [assets EXCEPT ![key].quantity = @ - quantity]]

LibSell(symbol, quantity) ==
    LET r == LibSellOutcome(symbol, quantity)
    IN  /\ calls < MaxEvents
        /\ assets' = r.assets
        /\ last' = [NoCall EXCEPT !.op = "sell", !.symbol = symbol,
                                  !.quantity = quantity,
                                  !.outcome = r.outcome]
        /\ calls' = calls + 1
        /\ UNCHANGED <<stocks, split_log, file, run, market>>

\* lib.rs Portfolio::stock: the asset, or None
LibStock(map, symbol) ==
    IF ToUppercase(symbol) \in DOMAIN map
    THEN {map[ToUppercase(symbol)]} ELSE {}

\* lib.rs Portfolio::assets
LibAssets(map) == {map[k] : k \in DOMAIN map}

NextLib ==
    \/ \E s \in CaseSymbols, q \in Quantities, p \in Prices : LibBuy(s, q, F(p))
    \/ \E s \in CaseSymbols, q \in Quantities : LibSell(s, q)

SpecLib == Init /\ [][NextLib]_vars

\* C26: in the aggregate Portfolio, a sell of exactly the quantity held
\* of a symbol succeeds and closes the position: afterwards stock(symbol)
\* is None and no asset of that symbol is among assets().
C26_SellAllClosesPosition ==
    [][(/\ last'.op = "sell"
        /\ \E a \in LibStock(assets, last'.symbol) :
              a.quantity = last'.quantity) =>
           /\ last'.outcome = "ok"
           /\ LibStock(assets', last'.symbol) = {}
           /\ \A a \in LibAssets(assets') :
                 a.name # ToUppercase(last'.symbol)]_vars

\* --------------------------------------- the command-line program (main)
\* One action is one run of the program: parse_command, Portfolio::load
\* with its fallback, the command, and Portfolio::save. calls counts the
\* runs. stocks is the Portfolio the run ends with in memory.

\* Portfolio::load: File::open and serde_json::from_reader
Load(contents) ==
    IF contents.state = "written" THEN Deserialize(contents.document)
    ELSE [ok |-> FALSE, portfolio |-> [s \in {} |-> NewStock(s)]]

\* main: Portfolio::load().unwrap_or_else(|err| .. Portfolio::new())
LoadOrNew(contents) ==
    IF Load(contents).ok THEN Load(contents).portfolio
    ELSE [s \in {} |-> NewStock(s)]

Loaded(contents) == IF Load(contents).ok THEN "ok" ELSE "fallback"

\* Portfolio::save: File::create can fail (the file stays as it is), and
\* to_writer can fail after File::create has truncated the file.
SaveOutcomes == {"ok", "create_failed", "write_failed"}

Save(contents, portfolio, outcome) ==
    IF outcome = "ok" THEN Written(Serialize(portfolio))
    ELSE IF outcome = "create_failed" THEN contents
    ELSE Corrupt

\* variant: main warns about a failed save and returns Ok(())
ExitIgnoringSave(saved) == "ok"

\* main: `portfolio.save()?` makes main return the error of a failed save
ExitOf(saved) == IF saved = "ok" THEN "ok" ELSE "error"

\* the Portfolio with the ledger of symbol replaced
With(portfolio, symbol, stock) ==
    [s \in DOMAIN portfolio \cup {symbol} |->
        IF s = symbol THEN stock ELSE portfolio[s]]

LedgerOf(portfolio, symbol) ==
    IF symbol \in DOMAIN portfolio THEN portfolio[symbol] ELSE NewStock(symbol)

\* the price arguments that parse as f64: a number, or NaN / inf
CliPrices == {F(1), Unrep}

\* Command::Buy
CliBuy(arg, quantity, price, datetime, outcome) ==
    LET symbol == ToUppercase(arg)
        portfolio == LoadOrNew(file)
        after == With(portfolio, symbol,
                      StockBuy(LedgerOf(portfolio, symbol),
                               quantity, price, datetime))
    IN  /\ calls < MaxEvents
        /\ stocks' = after
        /\ file' = Save(file, after, outcome)
        /\ run' = [loaded |-> Loaded(file), saved |-> outcome,
                   exit |-> ExitOf(outcome), reported |-> outcome # "ok"]
        /\ last' = [NoCall EXCEPT !.op = "buy", !.symbol = arg,
                                  !.quantity = quantity, !.price = price,
                                  !.datetime = datetime]
        /\ calls' = calls + 1
        /\ UNCHANGED <<split_log, assets, market>>

\* variant: the portfolio is saved whether or not the sell was accepted
CliSellAlwaysSaving(arg, quantity, price, datetime, outcome) ==
    LET symbol == ToUppercase(arg)
        portfolio == LoadOrNew(file)
    IN  \E r \in IF symbol \in DOMAIN portfolio
                 THEN StockSell(portfolio[symbol], quantity, price, datetime)
                 ELSE {[outcome |-> "err", value |-> Unrep]} :
            LET after == IF r.outcome = "ok"
                         THEN With(portfolio, symbol, r.stock) ELSE portfolio
            IN  /\ calls < MaxEvents
                /\ stocks' = after
                /\ file' = Save(file, after, outcome)
                /\ run' = [loaded |-> Loaded(file), saved |-> outcome,
                           exit |-> IF r.outcome = "ok" THEN ExitOf(outcome)
                                    ELSE "error",
                           reported |-> r.outcome # "ok" \/ outcome # "ok"]
                /\ last' = [NoCall EXCEPT !.op = "sell", !.symbol = arg,
                                          !.quantity = quantity,
                                          !.price = price,
                                          !.datetime = datetime,
                                          !.outcome = r.outcome,
                                          !.value = r.value]
                /\ calls' = calls + 1
                /\ UNCHANGED <<split_log, assets, market>>

\* Command::Sell: a refused sell makes main return before the save, a
\* panic ends the run at once.
CliSell(arg, quantity, price, datetime, outcome) ==
    LET symbol == ToUppercase(arg)
        portfolio == LoadOrNew(file)
    IN  \E r \in IF symbol \in DOMAIN portfolio
                 THEN StockSell(portfolio[symbol], quantity, price, datetime)
                 ELSE {[outcome |-> "err", value |-> Unrep]} :
            LET after == IF r.outcome = "ok"
                         THEN With(portfolio, symbol, r.stock) ELSE portfolio
            IN  /\ calls < MaxEvents
                /\ r.outcome # "ok" => outcome = "ok"
                /\ stocks' = after
                /\ file' = IF r.outcome = "ok"
                           THEN Save(file, after, outcome) ELSE file
                /\ run' = IF r.outcome = "ok"
                          THEN [loaded |-> Loaded(file), saved |-> outcome,
                                exit |-> ExitOf(outcome),
                                reported |-> outcome # "ok"]
                          ELSE [loaded |-> Loaded(file), saved |-> "none",
                                exit |-> IF r.outcome = "err" THEN "error"
                                         ELSE "panic",
                                reported |-> TRUE]
                /\ last' = [NoCall EXCEPT !.op = "sell", !.symbol = arg,
                                          !.quantity = quantity,
                                          !.price = price,
                                          !.datetime = datetime,
                                          !.outcome = r.outcome,
                                          !.value = r.value]
                /\ calls' = calls + 1
                /\ UNCHANGED <<split_log, assets, market>>

\* Command::Split
CliSplit(arg, ratio, datetime, outcome) ==
    LET symbol == ToUppercase(arg)
        portfolio == LoadOrNew(file)
        after == With(portfolio, symbol,
                      StockSplit(LedgerOf(portfolio, symbol), ratio, datetime))
    IN  /\ calls < MaxEvents
        /\ stocks' = after
        /\ file' = Save(file, after, outcome)
        /\ run' = [loaded |-> Loaded(file), saved |-> outcome,
                   exit |-> ExitOf(outcome), reported |-> outcome # "ok"]
        /\ last' = [NoCall EXCEPT !.op = "split", !.symbol = arg,
                                  !.ratio = ratio, !.datetime = datetime]
        /\ calls' = calls + 1
        /\ UNCHANGED <<split_log, assets, market>>

\* Command::ProfitSummary: loads and renders, and saves nothing
CliProfitSummary ==
    /\ calls < MaxEvents
    /\ stocks' = LoadOrNew(file)
    /\ run' = [loaded |-> Loaded(file), saved |-> "none", exit |-> "ok",
               reported |-> FALSE]
    /\ last' = [NoCall EXCEPT !.op = "profit-summary"]
    /\ calls' = calls + 1
    /\ UNCHANGED <<file, split_log, assets, market>>

\* The program starts with no portfolio.json, or with one that is no
\* JSON document.
InitCli ==
    /\ stocks = [s \in {} |-> NewStock(s)]
    /\ last = NoCall
    /\ calls = 0
    /\ split_log = {}
    /\ assets = [k \in {} |-> k]
    /\ file \in {Missing, Corrupt}
    /\ run = NoRun
    /\ market = NoFetch

NextCli ==
    \/ \E a \in CaseSymbols, q \in Quantities, p \in CliPrices,
          t \in BuyTimes, o \in SaveOutcomes : CliBuy(a, q, p, t, o)
    \/ \E a \in CaseSymbols, q \in Quantities, p \in CliPrices,
          t \in SellTimes, o \in SaveOutcomes : CliSell(a, q, p, t, o)
    \/ \E a \in CaseSymbols, r \in Ratios, t \in Times, o \in SaveOutcomes :
          CliSplit(a, r, t, o)
    \/ CliProfitSummary

SpecCli == InitCli /\ [][NextCli]_vars

\* C29 (as stated): with portfolio.json missing or unparsable the command
\* runs against an empty Portfolio instead of aborting, and a failed save
\* is reported to the user without being fatal: the run still ends
\* successfully.
C29_LoadFallbackSaveNotFatal ==
    [][/\ ~Load(file).ok =>
              /\ run'.loaded = "fallback"
              /\ DOMAIN stocks' \subseteq {ToUppercase(last'.symbol)}
              /\ \A s \in DOMAIN stocks' :
                    Cores(stocks'[s].trades) =
                       IF last'.op = "buy"
                       THEN <<[quantity |-> last'.quantity,
                               price |-> last'.price,
                               datetime |-> last'.datetime, kind |-> Buy]>>
                       ELSE <<>>
       /\ run'.saved \in SaveOutcomes \ {"ok"} =>
              /\ run'.reported
              /\ run'.exit = "ok"]_vars

\* C29 (amended): the fallback as stated; a failed save is reported and
\* makes main return the error, so the run ends with a failure status
\* (and without a panic).
C29_LoadFallbackSaveReported ==
    [][/\ ~Load(file).ok =>
              /\ run'.loaded = "fallback"
              /\ DOMAIN stocks' \subseteq {ToUppercase(last'.symbol)}
              /\ \A s \in DOMAIN stocks' :
                    Cores(stocks'[s].trades) =
                       IF last'.op = "buy"
                       THEN <<[quantity |-> last'.quantity,
                               price |-> last'.price,
                               datetime |-> last'.datetime, kind |-> Buy]>>
                       ELSE <<>>
       /\ run'.saved \in SaveOutcomes \ {"ok"} =>
              /\ run'.reported
              /\ run'.exit = "error"]_vars

\* a buy has run against the empty Portfolio of the fallback, and its save
\* has failed
C29_Witness ==
    /\ Called("buy")
    /\ run.loaded = "fallback"
    /\ run.saved = "write_failed"
    /\ DOMAIN stocks = {ToUppercase(last.symbol)}
    /\ file = Corrupt

\* C30: serializing a Portfolio and deserializing the result gives back an
\* equal Portfolio, and serializing that again gives the same document
\* (up to the order of the keys of a map).
C30_SerializeRoundTrip ==
    LET document == Serialize(stocks)
        back == Deserialize(document)
    IN  /\ back.ok
        /\ back.portfolio = stocks
        /\ Serialize(back.portfolio) = document

\* ------------------------------------------- chronological recording
\* The timestamp of the latest trade of a ledger (0 for none).
RECURSIVE LatestOf(_)
LatestOf(trades) ==
    IF trades = <<>> THEN 0
    ELSE LET rest == LatestOf(Tail(trades))
         IN  IF Head(trades).datetime > rest THEN Head(trades).datetime
             ELSE rest

Latest(symbol) ==
    IF symbol \in DOMAIN stocks THEN LatestOf(stocks[symbol].trades) ELSE 0

\* buy and sell calls dated after every trade already in the ledger of
\* their symbol, and no split calls
NextChrono ==
    \/ \E s \in Symbols, q \in Quantities, p \in Prices, t \in Times :
          t > Latest(s) /\ PortfolioBuy(s, q, F(p), t)
    \/ \E s \in Symbols, q \in Quantities, p \in Prices, t \in Times :
          t > Latest(s) /\ PortfolioSell(s, q, F(p), t)

SpecChrono == Init /\ [][NextChrono]_vars

\* C31: when every buy and sell is recorded with a timestamp later than
\* all trades already in the ledger and no split is recorded, the quantity
\* as of every date is non-negative: Stock::quantity neither overflows nor
\* wraps, and equals total bought minus total sold before the date.
C31_ChronologicalNonNegative ==
    \A s \in DOMAIN stocks : \A d \in Dates :
        LET q == StockQuantity(stocks[s], d)
        IN  /\ ~q.ovf
            /\ q.val >= 0
            /\ q.val = Holding(stocks[s].trades, d)

\* a Buy followed by two later Sells that together sell all of it
C31_Witness ==
    /\ Called("sell") /\ last.outcome = "ok" /\ Held(last.symbol)
    /\ Len(Ledger(last.symbol)) = 3
    /\ Ledger(last.symbol)[1].kind = Buy
    /\ Ledger(last.symbol)[2].kind = Sell
    /\ Ledger(last.symbol)[3].kind = Sell
    /\ StockQuantity(stocks[last.symbol], LastDate).val = 0

\* C32: recording a buy, or a sell that succeeds, with timestamp t changes
\* neither the quantity nor the average cost as of any date d <= t,
\* whatever the order in which the trades are recorded.
C32_EarlierDatesUnaffected ==
    [][(last'.op = "buy" \/ (last'.op = "sell" /\ last'.outcome = "ok")) =>
          \A d \in Dates :
              d <= last'.datetime =>
                  /\ StockQuantity(stocks'[last'.symbol], d) =
                        StockQuantity(Entry(last'.symbol), d)
                  /\ AveragePurchasePrice(stocks'[last'.symbol], d) =
                        AveragePurchasePrice(Entry(last'.symbol), d)]_vars

\* a buy was recorded between an earlier and a later trade of its ledger,
\* and something is held as of its timestamp
C32_Witness ==
    /\ Called("buy") /\ Held(last.symbol)
    /\ Len(Ledger(last.symbol)) = 3
    /\ Ledger(last.symbol)[1].datetime < last.datetime
    /\ Ledger(last.symbol)[2].datetime = last.datetime
    /\ Ledger(last.symbol)[2].quantity = last.quantity
    /\ Ledger(last.symbol)[3].datetime > last.datetime
    /\ StockQuantity(stocks[last.symbol], last.datetime).val > 0

\* the Sells of a ledger that fall in month m (0-based) of a year
SellsOfMonth(stock, year, m) ==
    {i \in 1 .. Len(stock.trades) :
        /\ stock.trades[i].kind = Sell
        /\ Year(stock.trades[i].datetime) = year
        /\ Month(stock.trades[i].datetime) - 1 = m}

\* C33: recording a split with timestamp T changes neither the profit nor
\* the proceeds that the monthly summary reports for the Sells dated before
\* T: each such Sell keeps its profit and its proceeds, and so does every
\* month of every year whose Sells are all dated before T.
C33_SplitKeepsEarlierProfit ==
    [][last'.op = "split" =>
          LET before == Entry(last'.symbol)
              after == stocks'[last'.symbol]
              T == last'.datetime
          IN  /\ \A i \in 1 .. Len(before.trades) :
                    (before.trades[i].kind = Sell
                        /\ before.trades[i].datetime < T) =>
                       /\ after.trades[i].kind = Sell
                       /\ CalculateProfit(after, after.trades[i]) =
                             CalculateProfit(before, before.trades[i])
                       /\ FMul(after.trades[i].price,
                               F(after.trades[i].quantity)) =
                             FMul(before.trades[i].price,
                                  F(before.trades[i].quantity))
              /\ \A year \in Years : \A m \in Months :
                    (\A i \in SellsOfMonth(before, year, m) :
                        before.trades[i].datetime < T) =>
                       GetProfitByMonth(after, year).months[m] =
                          GetProfitByMonth(before, year).months[m]]_vars

\* a split was recorded after a Sell that made a profit or a loss, and the
\* Sell carries the split's adjustment
C33_Witness ==
    /\ Called("split") /\ Held(last.symbol)
    /\ \E i \in 1 .. Len(Ledger(last.symbol)) :
          LET trade == Ledger(last.symbol)[i]
          IN  /\ trade.kind = Sell
              /\ trade.datetime < last.datetime
              /\ Carries(trade, last)
              /\ CalculateProfit(stocks[last.symbol], trade).val \notin
                    {F(0), Unrep}

\* C34: a buy, sell or split on a symbol leaves the ledger of every other
\* symbol as it was (same trades, same split lists), and with it the
\* quantity and the average cost of every other symbol as of every date.
C34_OtherLedgersUnchanged ==
    [][\A o \in DOMAIN stocks :
          o # last'.symbol =>
              /\ o \in DOMAIN stocks'
              /\ stocks'[o] = stocks[o]
              /\ \A d \in Dates :
                    /\ StockQuantity(stocks'[o], d) = StockQuantity(stocks[o], d)
                    /\ AveragePurchasePrice(stocks'[o], d) =
                          AveragePurchasePrice(stocks[o], d)]_vars

\* a split has adjusted a trade of its symbol while the other symbol's
\* ledger holds a trade dated before the split
C34_Witness ==
    /\ Called("split") /\ Held(last.symbol)
    /\ \E i \in 1 .. Len(Ledger(last.symbol)) :
          Carries(Ledger(last.symbol)[i], last)
    /\ \E o \in DOMAIN stocks :
          /\ o # last.symbol
          /\ \E i \in 1 .. Len(Ledger(o)) :
                /\ Ledger(o)[i].datetime < last.datetime
                /\ Ledger(o)[i].splits = <<>>

\* ------------------------------------------------- quantities up to 2^32
\* Quantities from the whole range of u32, as bit patterns: 1, 2^30,
\* 2^31 - 1, 2^31 and 3 000 000 000.
WideQuantities == {1, 1073741824, I32Max, -I32Max - 1, -1294967296}

\* buy calls with those quantities (ledgers of Buys, without splits)
NextWide ==
    \E s \in Symbols, q \in WideQuantities, p \in Prices, t \in Times :
        PortfolioBuy(s, q, F(p), t)

SpecWide == Init /\ [][NextWide]_vars

\* The value of a u32 bit pattern in two 16-bit halves, h * 2^16 + l.
Halves(u) == [h |-> (u \div 65536) % 65536, l |-> u % 65536]

\* The true net holding as of d, in the same halves but not reduced: the
\* sum of the effective Buy quantities minus that of the effective Sell
\* quantities of the trades dated before d.
RECURSIVE TrueHolding(_, _)
TrueHolding(trades, d) ==
    IF trades = <<>> THEN [h |-> 0, l |-> 0]
    ELSE LET t == Head(trades)
             rest == TrueHolding(Tail(trades), d)
             q == Halves(TradeQuantity(t, d))
             sign == IF t.kind = Buy THEN 1 ELSE -1
         IN  IF t.datetime < d
             THEN [h |-> rest.h + sign * q.h, l |-> rest.l + sign * q.l]
             ELSE rest

\* carries propagated: l in 0 .. 2^16 - 1
Reduced(x) == [h |-> x.h + (x.l \div 65536), l |-> x.l % 65536]

InU32(x) == Reduced(x).h \in 0 .. 65535

\* C35: for every ledger whose true net holding as of a date lies in
\* 0 .. 2^32 - 1, Stock::quantity returns exactly that holding: the i32
\* accumulator does not overflow and no conversion saturates or wraps.
C35_QuantityExact ==
    \A s \in DOMAIN stocks : \A d \in Dates :
        LET true == TrueHolding(stocks[s].trades, d)
            q == StockQuantity(stocks[s], d)
        IN  InU32(true) =>
                /\ ~q.ovf
                /\ Halves(q.val) = Reduced(true)

\* C36: in a run of the program (load, command, save) a sell that fails
\* never writes portfolio.json: the file is afterwards what it was when
\* the run loaded it, no save is attempted, and the Portfolio the run
\* ends with is the loaded one.
C36_FailedSellWritesNothing ==
    [][(last'.op = "sell" /\ last'.outcome # "ok") =>
          /\ file' = file
          /\ run'.saved = "none"
          /\ run'.exit # "ok"
          /\ stocks' = LoadOrNew(file)]_vars

\* a sell was refused in a run that had loaded a ledger with a trade from
\* the file
C36_Witness ==
    /\ Called("sell") /\ last.outcome = "err"
    /\ file.state = "written"
    /\ Load(file).ok
    /\ \E s \in DOMAIN stocks : Len(stocks[s].trades) >= 1
    /\ stocks = Load(file).portfolio

\* ------------------------------ StockMarket::get_stock_prices (threads)
\* market.stocks is the slice of input stocks, market.handles has one entry
\* per spawned thread ("running", or how its fetch ended), market.results
\* is the vector being collected, market.returned tells that the call has
\* returned it.
MaxStocks == 3

\* the stocks handed in: ledgers with one Buy each
InputStocks == {StockBuy(NewStock("A"), 1, F(1), 1),
                StockBuy(NewStock("B"), 2, F(2), 1)}

SlicesOf(S, n) == UNION {[1 .. k -> S] : k \in 0 .. n}

\* how a fetch thread can end: get_stock_price returns Ok or Err, or the
\* thread panics
ThreadOutcomes == {"ok", "err", "panic"}

\* get_stock_price for a stock whose request succeeds: the quantity and
\* the average price are those of the stock, the symbol is the one the
\* response carries for the requested symbol
Priced(stock, date) ==
    [ok |-> TRUE, symbol |-> stock.symbol,
     quantity |-> StockQuantity(stock, date).val,
     average_price |-> AveragePurchasePrice(stock, date).avg]

\* the Err of a failed request, or the Err made from a panic by
\* `handle.join().unwrap_or_else(..)`
Failed(outcome) ==
    [ok |-> FALSE, symbol |-> outcome, quantity |-> 0, average_price |-> F(0)]

\* the call starts with the slice it is given
InitMarket ==
    /\ stocks = [s \in {} |-> NewStock(s)]
    /\ last = NoCall
    /\ calls = 0
    /\ split_log = {}
    /\ assets = [k \in {} |-> k]
    /\ file = Missing
    /\ run = NoRun
    /\ \E slice \in SlicesOf(InputStocks, MaxStocks) :
          market = [NoFetch EXCEPT !.stocks = slice]

\* the loop `for stock in stocks`: s.spawn and handles.push
Spawn ==
    /\ Len(market.handles) < Len(market.stocks)
    /\ market' = [market EXCEPT !.handles = Append(@, "running")]
    /\ UNCHANGED <<stocks, last, calls, split_log, assets, file, run>>

\* a spawned thread ends
Finish(i, outcome) ==
    /\ i \in 1 .. Len(market.handles)
    /\ market.handles[i] = "running"
    /\ market' = [market EXCEPT !.handles[i] = outcome]
    /\ UNCHANGED <<stocks, last, calls, split_log, assets, file, run>>

\* variant: the handles are joined from the last one to the first
NextHandleFromEnd(m) == Len(m.handles) - Len(m.results)

\* handles.into_iter(): the handle that is joined next
NextHandle(m) == Len(m.results) + 1

\* one step of `.map(|handle| handle.join().unwrap_or_else(..))`: join
\* waits until the thread has ended
Join ==
    /\ Len(market.handles) = Len(market.stocks)
    /\ Len(market.results) < Len(market.handles)
    /\ LET i == NextHandle(market)
       IN  /\ market.handles[i] # "running"
           /\ market' = [market EXCEPT !.results =
                            Append(@, IF market.handles[i] = "ok"
                                      THEN Priced(market.stocks[i], LastDate)
                                      ELSE Failed(market.handles[i]))]
    /\ UNCHANGED <<stocks, last, calls, split_log, assets, file, run>>

\* collect() is complete and thread::scope returns the vector
Return ==
    /\ ~market.returned
    /\ Len(market.handles) = Len(market.stocks)
    /\ Len(market.results) = Len(market.handles)
    /\ market' = [market EXCEPT !.returned = TRUE]
    /\ UNCHANGED <<stocks, last, calls, split_log, assets, file, run>>

NextMarket ==
    \/ Spawn
    \/ \E i \in 1 .. MaxStocks, o \in ThreadOutcomes : Finish(i, o)
    \/ Join
    \/ Return

SpecMarket == InitMarket /\ [][NextMarket]_vars

\* C37: get_stock_prices starts one thread per input stock and, whatever
\* the interleaving and the order in which the threads end, returns only
\* after all of them have ended, with one result per input stock: result
\* i is the priced stock i when fetch i succeeded and an Err when fetch i
\* failed or panicked, whatever the other fetches did.
C37_OneResultPerStockInOrder ==
    /\ \A i \in 1 .. Len(market.results) :
          /\ market.handles[i] # "running"
          /\ market.results[i] =
                IF market.handles[i] = "ok"
                THEN Priced(market.stocks[i], LastDate)
                ELSE Failed(market.handles[i])
    /\ market.returned =>
          /\ Len(market.handles) = Len(market.stocks)
          /\ Len(market.results) = Len(market.stocks)
          /\ \A i \in 1 .. Len(market.handles) :
                market.handles[i] # "running"

\* the call has returned for three stocks, the first and the last
\* different, of which one fetch succeeded, one failed and one panicked
C37_Witness ==
    /\ market.returned
    /\ Len(market.stocks) = 3
    /\ market.stocks[1] # market.stocks[3]
    /\ market.results[1].ok
    /\ market.handles[2] = "panic"
    /\ market.handles[3] = "err"

====
